---- MODULE Spec2Model ----
(***************************************************************************)
(* second-brain-ocr: the State Ledger (state.py, StateManager) and the     *)
(* Pipeline Controller (main.py, SecondBrainOCR.process_file).             *)
(*                                                                         *)
(* A string is a sequence of characters; a character is named by a short   *)
(* TLA+ string: "a" "b" "c" are letters, "SP" is U+0020, "TAB" is U+0009   *)
(* and "NNBSP" is U+202F (NARROW NO-BREAK SPACE).                          *)
(*                                                                         *)
(* A file on disk is a record [kind, files]: kind "absent" (no file),      *)
(* "valid" (a JSON object whose processed_files is the list files),        *)
(* "garbage" (not JSON: json.load raises JSONDecodeError; a truncated      *)
(* write is this), "notdict" (JSON, not an object), "notlist" (an object   *)
(* whose processed_files is not a list).  The statistics counters and the  *)
(* timestamps of the file are left out: no operation reads them back.      *)
(***************************************************************************)
EXTENDS Integers, Sequences, FiniteSets, TLC

\* ------------------------------------------------------------------ bounds
\* The number of operations of one behaviour.
MaxOps == 3

\* ------------------------------------------------------- program constants
\* StateManager.__init__: max_retries: int = 3
max_retries == 3

\* ----------------------------------------------------------------- strings
P_NNBSP == <<"a", "NNBSP", "b">>
P_SPACE == <<"a", "SP", "b">>
P_TAB == <<"a", "SP", "TAB", "b">>
P_C == <<"c">>
P_EMPTY == <<>>

\* The path strings the operations are called with.
Paths == {P_NNBSP, P_SPACE, P_TAB, P_C, P_EMPTY}

\* Unicode code point of a character (sorted() compares strings by code point).
CodePoint(c) ==
    CASE c = "TAB" -> 9
      [] c = "SP" -> 32
      [] c = "a" -> 97
      [] c = "b" -> 98
      [] c = "c" -> 99
      [] c = "NNBSP" -> 8239

\* str.isspace / the regex class \s on a str pattern: Unicode whitespace.
IsSpace(c) == c \in {"SP", "TAB", "NNBSP"}

\* unicodedata.normalize("NFKC", c) of one character: U+202F has the
\* compatibility decomposition <noBreak> U+0020; the others are unchanged.
NFKCChar(c) == IF c = "NNBSP" THEN <<"SP">> ELSE <<c>>

RECURSIVE NFKC(_)
NFKC(s) == IF s = <<>> THEN <<>> ELSE NFKCChar(Head(s)) \o NFKC(Tail(s))

\* re.sub(r"\s+", " ", s): every maximal run of whitespace becomes one U+0020.
RECURSIVE CollapseSpace(_)
CollapseSpace(s) ==
    IF s = <<>> THEN <<>>
    ELSE IF IsSpace(Head(s))
         THEN IF Len(s) > 1 /\ IsSpace(s[2])
              THEN CollapseSpace(Tail(s))
              ELSE <<"SP">> \o CollapseSpace(Tail(s))
         ELSE <<Head(s)>> \o CollapseSpace(Tail(s))

\* StateManager._normalize_path
_normalize_path(file_path) == CollapseSpace(NFKC(file_path))

\* Python's str "<": lexicographic by code point, a proper prefix is smaller.
RECURSIVE StrLess(_, _)
StrLess(s, t) ==
    IF t = <<>> THEN FALSE
    ELSE IF s = <<>> THEN TRUE
    ELSE IF CodePoint(Head(s)) # CodePoint(Head(t))
         THEN CodePoint(Head(s)) < CodePoint(Head(t))
         ELSE StrLess(Tail(s), Tail(t))

\* sorted(S) for a set of strings.
RECURSIVE sorted(_)
sorted(S) ==
    IF S = {} THEN <<>>
    ELSE LET m == CHOOSE x \in S : \A y \in S \ {x} : StrLess(x, y)
         IN <<m>> \o sorted(S \ {m})

Range(q) == {q[i] : i \in 1..Len(q)}

\* -------------------------------------------------------------- disk files
\* files is the processed_files list of a file that has one, total its
\* total_files entry.
Absent == [kind |-> "absent", files |-> <<>>, total |-> 0]
Garbage == [kind |-> "garbage", files |-> <<>>, total |-> 0]
NotDict == [kind |-> "notdict", files |-> <<>>, total |-> 0]
NotList == [kind |-> "notlist", files |-> <<>>, total |-> 0]
Valid(list) == [kind |-> "valid", files |-> list, total |-> Len(list)]

\* Path.exists()
exists(f) == f.kind # "absent"

\* A "data" dict whose list is the set in descending order.
SaveDataDescending(mem) ==
    LET q == sorted(mem)
    IN [kind |-> "valid", files |-> [i \in 1..Len(q) |-> q[Len(q) + 1 - i]],
        total |-> Cardinality(mem)]

\* The "data" dict _save_state prepares (state.py 220-223): processed_files
\* is sorted(set), total_files is len(set).
SaveData(mem) ==
    [kind |-> "valid", files |-> sorted(mem), total |-> Cardinality(mem)]

\* A disk: the ledger file, its .json.backup sibling and the .json.tmp file.
Disk(m, b, t) == [main |-> m, backup |-> b, tmp |-> t]

\* ------------------------------------------------------------ _save_state
\* What one pass of the write loop meets: "ok", or the step that fails.
\*   open_fail     temp_file.open("w") raises OSError
\*   write_fail    json.dump raises OSError part-way (the temp file is partial)
\*   replace_fail  temp_file.replace(state_file) raises OSError
\*   unexpected    json.dump raises an exception that is not an OSError
WriteOutcomes == {"ok", "open_fail", "write_fail", "replace_fail", "unexpected"}

\* The faults one _save_state call meets: mkdir fails, the backup rename
\* fails, and the outcome of each pass of the write loop.
SaveFaults ==
    [mkdir : BOOLEAN, backup : BOOLEAN, writes : [1..max_retries -> WriteOutcomes]]

NoSaveFaults ==
    [mkdir |-> FALSE, backup |-> FALSE, writes |-> [i \in 1..max_retries |-> "ok"]]

\* A save that leaves the backup file as it is.
RotateBackupNever(d, ab, fails) == d

\* state.py 209-216: with auto_backup, the ledger file is RENAMED to the
\* backup name (Path.replace), so the ledger path is empty afterwards.
RotateBackup(d, ab, fails) ==
    IF ab /\ exists(d.main) /\ ~fails
    THEN Disk(Absent, d.main, d.tmp)
    ELSE d

\* state.py 233-278: the write loop from pass `attempt` (0-based) on.
\* Result: ok (the return value), disk (the disk at the return), trace (the
\* disks after each file-system change, in order: the points where a crash
\* can leave the disk), failures (the passes that raised), sleeps (the
\* time.sleep delays in order, in units of base_delay).
RECURSIVE WriteLoop(_, _, _, _)
WriteLoop(d, data, writes, attempt) ==
    IF attempt >= max_retries
    THEN [ok |-> FALSE, disk |-> d, trace |-> <<>>, failures |-> 0, sleeps |-> <<>>]
    ELSE LET o == writes[attempt + 1]
             partial == Disk(d.main, d.backup, Garbage)
             written == Disk(d.main, d.backup, data)
             renamed == Disk(data, d.backup, Absent)
             \* the disk and the trace of this pass
             after == CASE o = "ok" -> renamed
                        [] o = "open_fail" -> d
                        [] o = "write_fail" -> partial
                        [] o = "replace_fail" -> written
                        [] o = "unexpected" -> partial
             steps == CASE o = "ok" -> <<partial, written, renamed>>
                        [] o = "open_fail" -> <<>>
                        [] o = "write_fail" -> <<partial>>
                        [] o = "replace_fail" -> <<partial, written>>
                        [] o = "unexpected" -> <<partial>>
         IN IF o = "ok"
            THEN [ok |-> TRUE, disk |-> after, trace |-> steps,
                  failures |-> 0, sleeps |-> <<>>]
            ELSE IF o = "unexpected"
            THEN [ok |-> FALSE, disk |-> after, trace |-> steps,
                  failures |-> 1, sleeps |-> <<>>]
            ELSE IF attempt < max_retries - 1
            THEN LET r == WriteLoop(after, data, writes, attempt + 1)
                 IN [ok |-> r.ok, disk |-> r.disk, trace |-> steps \o r.trace,
                     failures |-> 1 + r.failures,
                     sleeps |-> <<2 ^ attempt>> \o r.sleeps]
            ELSE [ok |-> FALSE, disk |-> after, trace |-> steps,
                  failures |-> 1, sleeps |-> <<>>]

\* StateManager._save_state
_save_state(mem, d, ab, f) ==
    IF f.mkdir
    THEN [ok |-> FALSE, disk |-> d, trace |-> <<>>, failures |-> 0, sleeps |-> <<>>]
    ELSE LET d1 == RotateBackup(d, ab, f.backup)
             r == WriteLoop(d1, SaveData(mem), f.writes, 0)
         IN [ok |-> r.ok, disk |-> r.disk,
             trace |-> (IF d1 = d THEN <<>> ELSE <<d1>>) \o r.trace,
             failures |-> r.failures, sleeps |-> r.sleeps]

\* ------------------------------------------------------------ _load_state
ReadOutcomes == {"ok", "oserror", "unexpected"}

\* The faults one _load_state call meets: the outcome of each read, and
\* whether restoring the backup fails.  (A failing mkdir on a cold start,
\* state.py 115-120, only counts a load error.)
LoadFaults == [reads : [1..max_retries -> ReadOutcomes], restore : BOOLEAN]

NoLoadFaults == [reads |-> [i \in 1..max_retries |-> "ok"], restore |-> FALSE]

\* state.py 126-139: the exception one read of the ledger file ends with.
ReadException(content, fault) ==
    CASE fault = "oserror" -> "OSError"
      [] fault = "unexpected" -> "Exception"
      [] fault = "ok" /\ content.kind = "valid" -> "none"
      [] fault = "ok" /\ content.kind = "garbage" -> "JSONDecodeError"
      [] fault = "ok" /\ content.kind \in {"notdict", "notlist"} -> "ValueError"
      [] fault = "ok" /\ content.kind = "absent" -> "OSError"

\* The except clauses of _load_state without the final catch-all.
LoadCatchesNoCatchAll(e) == e \in {"JSONDecodeError", "OSError", "ValueError"}

\* state.py 151, 169, 188: the except clauses of _load_state.
LoadCatches(e) == e \in {"JSONDecodeError", "OSError", "ValueError", "Exception"}

\* The set built from the file's list with its entries left as written.
LoadedSetRaw(content) == Range(content.files)

\* state.py 141: the set built from the file's list, each entry normalised.
LoadedSet(content) == {_normalize_path(p) : p \in Range(content.files)}

\* state.py 125-193: the read loop from pass `attempt` (0-based) on.
\* Result: processed (the set at the return), disk, reads (reads of the
\* ledger file), restores (attempts to restore the backup), raised (an
\* exception left _load_state).
RECURSIVE ReadLoop(_, _, _, _, _)
ReadLoop(d, lf, attempt, reads, restores) ==
    IF attempt >= max_retries
    THEN [processed |-> {}, disk |-> d, reads |-> reads, restores |-> restores,
          raised |-> FALSE]
    ELSE LET e == ReadException(d.main, lf.reads[attempt + 1])
             done(set, dd, rs, up) ==
                 [processed |-> set, disk |-> dd, reads |-> reads + 1,
                  restores |-> rs, raised |-> up]
         IN IF e = "none"
            THEN done(LoadedSet(d.main), d, restores, FALSE)
            ELSE IF ~LoadCatches(e)
            THEN done({}, d, restores, TRUE)
            ELSE IF e = "JSONDecodeError"
            THEN IF exists(d.backup) /\ attempt < max_retries - 1
                 THEN IF lf.restore
                      THEN done({}, d, restores + 1, FALSE)
                      ELSE ReadLoop(Disk(d.backup, Absent, d.tmp), lf, attempt + 1,
                                    reads + 1, restores + 1)
                 ELSE done({}, d, restores, FALSE)
            ELSE IF e \in {"OSError", "ValueError"}
            THEN IF attempt < max_retries - 1
                 THEN ReadLoop(d, lf, attempt + 1, reads + 1, restores)
                 ELSE done({}, d, restores, FALSE)
            ELSE done({}, d, restores, FALSE)

\* StateManager._load_state, called by __init__ on an empty processed_files.
_load_state(d, lf) ==
    IF ~exists(d.main)
    THEN [processed |-> {}, disk |-> d, reads |-> 0, restores |-> 0, raised |-> FALSE]
    ELSE ReadLoop(d, lf, 0, 0, 0)

\* The processed set of a fresh StateManager built over disk d when no
\* file-system call fails.
FreshLedger(d) == _load_state(d, NoLoadFaults).processed

\* ------------------------------------------------------- ledger operations
\* A membership test on the string as given.
is_processed_raw(mem, file_path) == file_path # <<>> /\ file_path \in mem

\* StateManager.is_processed
is_processed(mem, file_path) ==
    file_path # <<>> /\ _normalize_path(file_path) \in mem

\* A mark_processed that inserts the path as given, not its normal form.
mark_processed_raw(mem, d, ab, file_path, f) ==
    IF file_path = <<>>
    THEN [ret |-> FALSE, mem |-> mem, disk |-> d, saved |-> FALSE, trace |-> <<>>,
          failures |-> 0, sleeps |-> <<>>]
    ELSE IF file_path \in mem
    THEN [ret |-> TRUE, mem |-> mem, disk |-> d, saved |-> FALSE, trace |-> <<>>,
          failures |-> 0, sleeps |-> <<>>]
    ELSE LET s == _save_state(mem \cup {file_path}, d, ab, f)
         IN [ret |-> s.ok, mem |-> mem \cup {file_path}, disk |-> s.disk,
             saved |-> TRUE, trace |-> s.trace,
             failures |-> s.failures, sleeps |-> s.sleeps]

\* A mark_processed that takes the path out of the set again when its save
\* fails.
mark_processed_rollback(mem, d, ab, file_path, f) ==
    IF file_path = <<>>
    THEN [ret |-> FALSE, mem |-> mem, disk |-> d, saved |-> FALSE, trace |-> <<>>,
          failures |-> 0, sleeps |-> <<>>]
    ELSE IF _normalize_path(file_path) \in mem
    THEN [ret |-> TRUE, mem |-> mem, disk |-> d, saved |-> FALSE, trace |-> <<>>,
          failures |-> 0, sleeps |-> <<>>]
    ELSE LET s == _save_state(mem \cup {_normalize_path(file_path)}, d, ab, f)
         IN [ret |-> s.ok,
             mem |-> IF s.ok THEN mem \cup {_normalize_path(file_path)} ELSE mem,
             disk |-> s.disk, saved |-> TRUE, trace |-> s.trace,
             failures |-> s.failures, sleeps |-> s.sleeps]

\* StateManager.mark_processed.  Result: ret (the return value), mem (the
\* in-memory set), disk, saved (_save_state was called), trace, failures and
\* sleeps (as for _save_state).
mark_processed(mem, d, ab, file_path, f) ==
    IF file_path = <<>>
    THEN [ret |-> FALSE, mem |-> mem, disk |-> d, saved |-> FALSE, trace |-> <<>>,
          failures |-> 0, sleeps |-> <<>>]
    ELSE LET normalized == _normalize_path(file_path)
         IN IF normalized \in mem
            THEN [ret |-> TRUE, mem |-> mem, disk |-> d, saved |-> FALSE,
                  trace |-> <<>>, failures |-> 0, sleeps |-> <<>>]
            ELSE LET s == _save_state(mem \cup {normalized}, d, ab, f)
                 IN [ret |-> s.ok, mem |-> mem \cup {normalized}, disk |-> s.disk,
                     saved |-> TRUE, trace |-> s.trace,
                     failures |-> s.failures, sleeps |-> s.sleeps]

\* StateManager.mark_batch_processed, file_paths a list of strings.  Result
\* as for mark_processed.
mark_batch_processed(mem, d, ab, file_paths, f) ==
    LET valid_paths == {p \in Range(file_paths) : p # <<>>}
        normalized_paths == {_normalize_path(p) : p \in valid_paths}
    IN IF file_paths = <<>> \/ valid_paths = {}
       THEN [ret |-> FALSE, mem |-> mem, disk |-> d, saved |-> FALSE, trace |-> <<>>,
             failures |-> 0, sleeps |-> <<>>]
       ELSE LET s == _save_state(mem \cup normalized_paths, d, ab, f)
            IN [ret |-> s.ok, mem |-> mem \cup normalized_paths, disk |-> s.disk,
                saved |-> TRUE, trace |-> s.trace,
                failures |-> s.failures, sleeps |-> s.sleeps]

\* StateManager.clear_processed
clear_processed(mem, d, ab, f) ==
    LET s == _save_state({}, d, ab, f)
    IN [ret |-> s.ok, mem |-> {}, disk |-> s.disk, saved |-> TRUE, trace |-> s.trace,
        failures |-> s.failures, sleeps |-> s.sleeps]

\* StateManager.remove_processed
remove_processed(mem, d, ab, file_path, f) ==
    IF file_path = <<>>
    THEN [ret |-> FALSE, mem |-> mem, disk |-> d, saved |-> FALSE, trace |-> <<>>,
          failures |-> 0, sleeps |-> <<>>]
    ELSE LET normalized == _normalize_path(file_path)
         IN IF normalized \notin mem
            THEN [ret |-> TRUE, mem |-> mem, disk |-> d, saved |-> FALSE,
                  trace |-> <<>>, failures |-> 0, sleeps |-> <<>>]
            ELSE LET s == _save_state(mem \ {normalized}, d, ab, f)
                 IN [ret |-> s.ok, mem |-> mem \ {normalized}, disk |-> s.disk,
                     saved |-> TRUE, trace |-> s.trace,
                     failures |-> s.failures, sleeps |-> s.sleeps]

\* StateManager.get_processed_count
get_processed_count(mem) == Cardinality(mem)

\* ------------------------------------------------------------ process_file
\* What one process_file run meets outside the ledger:
\*   exists, is_file   file_path.exists(), file_path.is_file()
\*   extract   "text" (a dict with non-empty text), "empty" (a dict whose text
\*             is ""), "none" (extract_text_with_metadata returned None)
\*   embed     "vector", "none" (generate_embedding returned None)
\*   index     "true", "false" (index_document's return value) or "raise"
\*             (upload_documents raised an error index_document lets through)
\*   save      the faults of the _save_state call, if one is made
\*   notify    what the webhook does with a notification, if one is sent
\* "raise" as an outcome of extract, embed or index: the collaborator raised
\* an Exception.
\* The write schedules explored: passes after the one that returns are not
\* reached (written "ok"), and the passes that fail with OSError all fail at
\* the same step.
SaveSchedules ==
    {w \in [1..max_retries -> WriteOutcomes] :
        /\ \A i \in 1..(max_retries - 1) :
              w[i] \in {"ok", "unexpected"} => \A j \in (i + 1)..max_retries : w[j] = "ok"
        /\ \A i, j \in 1..max_retries :
              (w[i] \notin {"ok", "unexpected"} /\ w[j] \notin {"ok", "unexpected"})
                  => w[i] = w[j]}

\* The save faults explored: after a failing mkdir nothing else is reached.
CanonicalSaveFaults ==
    {f \in SaveFaults :
        /\ f.writes \in SaveSchedules
        /\ f.mkdir => (~f.backup /\ f.writes = NoSaveFaults.writes)}

\* The save faults explored for a crash inside a save: every disk on the
\* trace of a save with failing passes is on the trace of one without.
CrashSaveFaults == {f \in CanonicalSaveFaults : ~f.mkdir /\ f.writes = NoSaveFaults.writes}

\* The Notifier: the webhook takes the request, the request fails (timeout,
\* HTTP error, connection error), or no webhook URL is configured.
Notifications == {"delivered", "failed", "disabled"}

Env(ex, isf, x, m, i, sf) ==
    [exists |-> ex, is_file |-> isf, extract |-> x, embed |-> m, index |-> i, save |-> sf,
     notify |-> "delivered"]

\* The runs whose save, if one is made, meets no fault.
PlainEnvs ==
    {Env(FALSE, FALSE, "none", "none", "false", NoSaveFaults),
     Env(TRUE, FALSE, "none", "none", "false", NoSaveFaults)}
    \cup {Env(TRUE, TRUE, x, "none", "false", NoSaveFaults) :
              x \in {"none", "empty", "raise", "text"}}
    \cup {Env(TRUE, TRUE, "text", "raise", "false", NoSaveFaults)}
    \cup {Env(TRUE, TRUE, "text", "vector", i, NoSaveFaults) :
              i \in {"false", "raise", "true"}}

\* The runs explored with a Notifier that delivers: every outcome of the
\* stages and every save fault.
ProcessEnvs ==
    PlainEnvs
    \cup {Env(TRUE, TRUE, "text", "vector", "true", sf) : sf \in CanonicalSaveFaults}

\* The runs explored under the three Notifiers: every outcome of the stages,
\* with a save that works, that fails at mkdir and that fails at every write.
NotifyEnvs ==
    PlainEnvs
    \cup {Env(TRUE, TRUE, "text", "vector", "true", sf) :
              sf \in {[NoSaveFaults EXCEPT !.mkdir = TRUE],
                      [NoSaveFaults EXCEPT !.writes = [i \in 1..max_retries |-> "open_fail"]]}}

\* The runs in which index_document returns True, for a crash after it.
CrashEnvs == {Env(TRUE, TRUE, "text", "vector", "true", sf) : sf \in CrashSaveFaults}

\* The result of a run that ends without a call of mark_processed.  ix is
\* what index_document did ("none": it was not called).
Ended(mem, d, log, calls, ix, counted, event) ==
    [ret |-> FALSE, log |-> log, calls |-> calls, index |-> ix, mem |-> mem,
     disk |-> d, trace |-> <<>>, marked |-> FALSE, mark_ret |-> FALSE,
     failed_counted |-> counted, event |-> event, raised |-> FALSE,
     notified |-> "none"]

\* An except clause that catches nothing.
ProcessCatchesNothing(e) == FALSE

\* main.py 365-368: process_file lets KeyboardInterrupt through and catches
\* every Exception.
ProcessCatches(e) == e = "Exception"

\* main.py 368-372: a collaborator raised an Exception after the calls given.
Thrown(mem, d, calls, ix) ==
    IF ProcessCatches("Exception")
    THEN Ended(mem, d, "Error", calls, ix, TRUE, "processing_error")
    ELSE [Ended(mem, d, "Raised", calls, ix, FALSE, "none") EXCEPT !.raised = TRUE]

\* main.py 334-358: index_document returned True.
Succeeded(m) ==
    [ret |-> TRUE, log |-> "Success",
     calls |-> <<"extract", "embed", "index", "mark_processed">>, index |-> "true",
     mem |-> m.mem, disk |-> m.disk, trace |-> m.trace, marked |-> TRUE,
     mark_ret |-> m.ret, failed_counted |-> FALSE, event |-> "file_processed",
     raised |-> FALSE, notified |-> "none"]

\* Stages that go on to the Embedder whatever the Extractor returned.
StagesPastExtraction(mem, d, ab, file_path, env) ==
    IF env.extract = "raise"
    THEN Thrown(mem, d, <<"extract">>, "none")
    ELSE IF env.embed = "raise"
    THEN Thrown(mem, d, <<"extract", "embed">>, "none")
    ELSE IF env.embed # "vector"
    THEN Ended(mem, d, "EmbeddingFailed", <<"extract", "embed">>, "none", TRUE,
               "processing_error")
    ELSE IF env.index = "raise"
    THEN Thrown(mem, d, <<"extract", "embed", "index">>, "raise")
    ELSE IF env.index = "false"
    THEN Ended(mem, d, "IndexFailed", <<"extract", "embed", "index">>, "false", TRUE,
               "processing_error")
    ELSE Succeeded(mark_processed(mem, d, ab, file_path, env.save))

\* main.py 300-363: the stages, run when the ledger check has let the file
\* through.
Stages(mem, d, ab, file_path, env) ==
    IF env.extract = "raise"
    THEN Thrown(mem, d, <<"extract">>, "none")
    ELSE IF env.extract # "text"
    THEN Ended(mem, d, "ExtractionFailed", <<"extract">>, "none", TRUE, "file_processed")
    ELSE IF env.embed = "raise"
    THEN Thrown(mem, d, <<"extract", "embed">>, "none")
    ELSE IF env.embed # "vector"
    THEN Ended(mem, d, "EmbeddingFailed", <<"extract", "embed">>, "none", TRUE,
               "processing_error")
    ELSE IF env.index = "raise"
    THEN Thrown(mem, d, <<"extract", "embed", "index">>, "raise")
    ELSE IF env.index = "false"
    THEN Ended(mem, d, "IndexFailed", <<"extract", "embed", "index">>, "false", TRUE,
               "processing_error")
    ELSE Succeeded(mark_processed(mem, d, ab, file_path, env.save))

\* A webhook sender whose failed request raises to its caller.
_send_webhook_raising(n) == [ret |-> n # "failed", raised |-> n = "failed"]

\* WebhookNotifier._send_webhook, reached through notify_file_processed and
\* notify_error: True when disabled or delivered, False when the request
\* fails; every exception is caught (notifier.py 343-414, 208, 291).
_send_webhook(n) == [ret |-> n # "failed", raised |-> FALSE]

\* The Notifier call that ends a run r which sends an event.  Its return
\* value is not looked at; an exception of it would reach the except clause
\* of process_file, whose own notify_error call would raise in turn.
Notified(r, n) ==
    IF r.event = "none" THEN r
    ELSE IF _send_webhook(n).raised
    THEN [r EXCEPT !.ret = FALSE, !.log = "Raised", !.raised = TRUE,
                   !.failed_counted = TRUE, !.notified = n]
    ELSE [r EXCEPT !.notified = n]

\* A process_file that calls mark_processed before it looks at what
\* index_document returned.
process_file_mark_first(mem, d, ab, file_path, env) ==
    Notified(
        IF ~env.exists THEN Ended(mem, d, "NotFound", <<>>, "none", FALSE, "none")
        ELSE IF ~env.is_file THEN Ended(mem, d, "NotAFile", <<>>, "none", FALSE, "none")
        ELSE IF is_processed(mem, file_path)
        THEN Ended(mem, d, "Skipped", <<>>, "none", FALSE, "none")
        ELSE IF env.extract = "text" /\ env.embed = "vector" /\ env.index = "false"
        THEN LET m == mark_processed(mem, d, ab, file_path, env.save)
             IN [Succeeded(m) EXCEPT !.ret = FALSE, !.log = "IndexFailed",
                                     !.index = "false", !.failed_counted = TRUE,
                                     !.event = "processing_error"]
        ELSE Stages(mem, d, ab, file_path, env),
        env.notify)

\* A process_file without the ledger check of main.py 292-295.
process_file_no_check(mem, d, ab, file_path, env) ==
    Notified(
        IF ~env.exists THEN Ended(mem, d, "NotFound", <<>>, "none", FALSE, "none")
        ELSE IF ~env.is_file THEN Ended(mem, d, "NotAFile", <<>>, "none", FALSE, "none")
        ELSE Stages(mem, d, ab, file_path, env),
        env.notify)

\* SecondBrainOCR.process_file.  Result: ret (the return value), log (the
\* exit taken), calls (the collaborator and ledger-mutation calls made, in
\* order), index (what index_document did), mem and disk (the ledger
\* afterwards), trace (the disks a crash inside mark_processed can leave),
\* marked (mark_processed was called), mark_ret (its return value),
\* failed_counted (files_failed_total was incremented), event (the Notifier
\* event sent), notified (what the webhook did with it), raised (an
\* exception left process_file).
process_file(mem, d, ab, file_path, env) ==
    Notified(
        IF ~env.exists THEN Ended(mem, d, "NotFound", <<>>, "none", FALSE, "none")
        ELSE IF ~env.is_file THEN Ended(mem, d, "NotAFile", <<>>, "none", FALSE, "none")
        ELSE IF is_processed(mem, file_path)
        THEN Ended(mem, d, "Skipped", <<>>, "none", FALSE, "none")
        ELSE Stages(mem, d, ab, file_path, env),
        env.notify)

\* ----------------------------------------------------------- backlog scan
\* The places of a watched tree: two entries of the watch directory itself
\* (r1, r2), a subdirectory d1 with an entry d1f and a subdirectory d2, and
\* an entry d2f of d2.
Slots == {"r1", "r2", "d1", "d1f", "d2", "d2f"}

DirSlots == {"d1", "d2"}

Parent(slot) ==
    CASE slot \in {"r1", "r2", "d1"} -> "root"
      [] slot \in {"d1f", "d2"} -> "d1"
      [] slot = "d2f" -> "d2"

\* str(file_path) of the entry at a slot.
SlotPath(slot) ==
    CASE slot = "r1" -> P_C
      [] slot = "r2" -> P_NNBSP
      [] slot = "d1f" -> P_SPACE
      [] slot = "d2f" -> P_TAB
      [] OTHER -> <<"d">>

\* What is at a slot: nothing, a directory, a regular file with a suffix,
\* or a FIFO named like an image.
NoEntry == [kind |-> "absent", suffix |-> ""]

File(suffix) == [kind |-> "file", suffix |-> suffix]

Fifo == [kind |-> "fifo", suffix |-> ".jpg"]

Entries(slot) ==
    CASE slot \in DirSlots -> {NoEntry, [kind |-> "dir", suffix |-> ""]}
      [] slot = "r1" -> {NoEntry, Fifo, File(".jpg"), File(".JPG"), File(".txt")}
      [] slot = "r2" -> {NoEntry, File(".JPG")}
      [] slot = "d1f" -> {NoEntry, Fifo, File(".jpg")}
      [] slot = "d2f" -> {NoEntry, File(".jpg"), File(".txt")}

\* The watched trees: root is what is at watch_path ("dir", "file" or
\* "absent"); an entry is there only when its directory is.
Trees ==
    {t \in [root : {"dir", "file", "absent"},
            at : {a \in [Slots -> UNION {Entries(x) : x \in Slots}] :
                     \A x \in Slots : a[x] \in Entries(x)}] :
        \A x \in Slots :
            t.at[x].kind # "absent" =>
                IF Parent(x) = "root" THEN t.root = "dir"
                ELSE t.at[Parent(x)].kind = "dir"}

EmptyTree == [root |-> "dir", at |-> [x \in Slots |-> NoEntry]]

\* The order in which a directory lists its entries.
SlotOrder == <<"r1", "d1", "r2", "d1f", "d2", "d2f">>

\* watch_path.glob("*"): the entries of the directory itself.
glob(t, dir) ==
    SelectSeq(SlotOrder, LAMBDA x : Parent(x) = dir /\ t.at[x].kind # "absent")

\* The entries of the watch directory only, whatever dir is asked for.
rglob_top(t, dir) == glob(t, "root")

\* watch_path.rglob("*"): the entries of the directory and, after each
\* subdirectory, the entries below it.
RECURSIVE Descend(_, _)
Descend(t, q) ==
    IF q = <<>> THEN <<>>
    ELSE <<Head(q)>>
         \o (IF t.at[Head(q)].kind = "dir"
             THEN Descend(t, glob(t, Head(q))) ELSE <<>>)
         \o Descend(t, Tail(q))

rglob(t, dir) == Descend(t, glob(t, dir))

\* str.lower() of a suffix.
lower(suffix) == IF suffix = ".JPG" THEN ".jpg" ELSE suffix

\* Config.SUPPORTED_IMAGE_EXTENSIONS, as far as the suffixes of the model go.
supported_extensions == {".jpg"}

\* scan_existing_files(watch_path, supported_extensions, state_manager) with
\* max_files None, as process_existing_files calls it: the slots of the
\* files returned, in order.
scan_existing_files(t, mem) ==
    IF t.root # "dir" THEN <<>>
    ELSE SelectSeq(rglob(t, "root"),
                   LAMBDA x : /\ t.at[x].kind = "file"
                              /\ lower(t.at[x].suffix) \in supported_extensions
                              /\ ~is_processed(mem, SlotPath(x)))

\* -------------------------------------------------------------- chunk_text
\* A text is a sequence of characters: "x" a letter, "SP" a space, "NL" a
\* newline, and the punctuation marks.
\* str.strip(): leading and trailing whitespace removed.
RECURSIVE strip_left(_)
strip_left(q) ==
    IF q # <<>> /\ (IsSpace(Head(q)) \/ Head(q) = "NL") THEN strip_left(Tail(q)) ELSE q

RECURSIVE strip_right(_)
strip_right(q) ==
    IF q # <<>> /\ (IsSpace(q[Len(q)]) \/ q[Len(q)] = "NL")
    THEN strip_right(SubSeq(q, 1, Len(q) - 1))
    ELSE q

strip(q) == strip_right(strip_left(q))

\* text[start:end], with Python's positions from 0.
Slice(text, start, end) ==
    SubSeq(text, start + 1, IF end < Len(text) THEN end ELSE Len(text))

\* text.find(sub, lo, hi): the lowest position at which sub lies within
\* text[lo:hi], or -1.
find(text, sub, lo, hi) ==
    LET at == {i \in lo..(hi - Len(sub)) : Slice(text, i, i + Len(sub)) = sub}
    IN IF at = {} THEN -1 ELSE CHOOSE i \in at : \A j \in at : i <= j

\* text.rfind(sub, lo, hi): the highest position at which sub lies within
\* text[lo:hi], or -1.
rfind(text, sub, lo, hi) ==
    LET at == {i \in lo..(hi - Len(sub)) : Slice(text, i, i + Len(sub)) = sub}
    IN IF at = {} THEN -1 ELSE CHOOSE i \in at : \A j \in at : j <= i

\* sentence_endings, in order of preference.
sentence_endings ==
    <<<<".", "SP">>, <<"!", "SP">>, <<"?", "SP">>, <<"NL", "NL">>, <<"NL">>,
      <<";", "SP">>, <<",", "SP">>>>

\* The end of the chunk that starts at start: after the last sentence ending
\* of the first kind found in the second half of the window, else end.
RECURSIVE BreakAt(_, _, _, _, _)
BreakAt(text, start, max_chars, end, endings) ==
    IF endings = <<>> THEN end
    ELSE LET last_punct == rfind(text, Head(endings), start + (max_chars \div 2), end)
         IN IF last_punct > start THEN last_punct + Len(Head(endings))
            ELSE BreakAt(text, start, max_chars, end, Tail(endings))

\* The length a chunk has to exceed, after trimming, to be returned.
MinChunkChars == 10

\* A chunk_text that returns every chunk that is not empty.
KeepsAny(chunk) == chunk # <<>>

\* chunk and len(chunk) > 10
Keeps(chunk) == chunk # <<>> /\ Len(chunk) > MinChunkChars

\* The while loop of chunk_text, from start on.
RECURSIVE ChunksFrom(_, _, _, _)
ChunksFrom(text, start, max_chars, overlap_chars) ==
    IF start >= Len(text) THEN <<>>
    ELSE LET end == IF start + max_chars < Len(text)
                    THEN BreakAt(text, start, max_chars, start + max_chars,
                                 sentence_endings)
                    ELSE start + max_chars
             chunk == strip(Slice(text, start, end))
             next == IF end - overlap_chars > start + (max_chars \div 2)
                     THEN end - overlap_chars
                     ELSE start + (max_chars \div 2)
         IN (IF Keeps(chunk) THEN <<chunk>> ELSE <<>>)
            \o (IF end >= Len(text) THEN <<>>
                ELSE ChunksFrom(text, next, max_chars, overlap_chars))

\* The windows text[start:end] the while loop cuts, as <<start, end>>, from
\* start on.
RECURSIVE WindowsFrom(_, _, _, _)
WindowsFrom(text, start, max_chars, overlap_chars) ==
    IF start >= Len(text) THEN <<>>
    ELSE LET end == IF start + max_chars < Len(text)
                    THEN BreakAt(text, start, max_chars, start + max_chars,
                                 sentence_endings)
                    ELSE start + max_chars
             next == IF end - overlap_chars > start + (max_chars \div 2)
                     THEN end - overlap_chars
                     ELSE start + (max_chars \div 2)
         IN <<<<start, end>>>>
            \o (IF end >= Len(text) THEN <<>>
                ELSE WindowsFrom(text, next, max_chars, overlap_chars))

\* EmbeddingGenerator.chunk_text, with max_tokens and overlap given.
chunk_text(text, max_tokens, overlap) ==
    IF text = <<>> \/ strip(text) = <<>> THEN <<>>
    ELSE IF Len(text) <= max_tokens * 4 THEN <<text>>
    ELSE ChunksFrom(text, 0, max_tokens * 4, overlap * 4)

\* n times the character c.
Run(c, n) == [i \in 1..n |-> c]

\* The texts of length n explored: letters, then an optional mark, then
\* spaces, then letters.
ChunkTexts(n) ==
    {Run("x", a) \o sep \o Run("SP", b) \o Run("x", n - a - Len(sep) - b) :
        <<a, b, sep>> \in {y \in (0..n) \X (0..n) \X {<<>>, <<".">>, <<",">>} :
                              y[1] + y[2] + Len(y[3]) <= n}}

\* The marks of the texts with two endings.
Marks == {".", "!", ","}

\* The texts of length n with two endings: letters, a mark and a space,
\* letters, a mark and a space, letters.
TwoEndingTexts(n) ==
    {Run("x", y[1]) \o <<y[3], "SP">> \o Run("x", y[2]) \o <<y[4], "SP">>
        \o Run("x", n - y[1] - y[2] - 4) :
        y \in {z \in (0..n) \X (0..n) \X Marks \X Marks : z[1] + z[2] + 4 <= n}}

\* The max_tokens and the overlap chunk_text is called with.
ChunkMaxTokens == {3, 6}

ChunkOverlaps == {1, 2, 3}

\* ------------------------------------------------------ the watcher handler
\* What one call of the handler's callback, process_file, ends with: it
\* returns True or False, or it raises an Exception, or an exception that is
\* no Exception (SystemExit, KeyboardInterrupt).
CallbackOutcomes == {"True", "False", "Exception", "BaseException"}

\* A handler that takes only a returned True for a success.
ReturnsOnlyTrue(o) == o = "True"

\* self.callback(file_path) came back without an exception: watcher.py
\* 142-143.
Returns(o) == o \in {"True", "False"}

\* watcher.py 140-160: the loop of _execute_callback_with_retry from pass
\* `attempt` (0-based) on, with outcomes[k] the outcome of the k-th call.
\* Result: ret (the return value), invoked (the calls of the callback),
\* sleeps (the delays in units of base_delay), raised (an exception left
\* the loop).
RECURSIVE CallbackLoop(_, _, _)
CallbackLoop(n, outcomes, attempt) ==
    IF attempt >= n
    THEN [ret |-> FALSE, invoked |-> 0, sleeps |-> <<>>, raised |-> FALSE]
    ELSE IF Returns(outcomes[attempt + 1])
    THEN [ret |-> TRUE, invoked |-> 1, sleeps |-> <<>>, raised |-> FALSE]
    ELSE IF outcomes[attempt + 1] = "BaseException"
    THEN [ret |-> FALSE, invoked |-> 1, sleeps |-> <<>>, raised |-> TRUE]
    ELSE LET r == CallbackLoop(n, outcomes, attempt + 1)
         IN [ret |-> r.ret, invoked |-> 1 + r.invoked,
             sleeps |-> (IF attempt < n - 1 THEN <<2 ^ attempt>> ELSE <<>>) \o r.sleeps,
             raised |-> r.raised]

\* ImageFileHandler._execute_callback_with_retry
_execute_callback_with_retry(n, outcomes) == CallbackLoop(n, outcomes, 0)

\* The events the handler gets: of a directory or a file, with a suffix
\* that is supported or not.
FileEvents == [is_directory : BOOLEAN, supported : BOOLEAN]

\* ImageFileHandler.on_created(ev): watcher.py 90-129.  counted is the
\* counter the event adds to.
handle_created(ev, n, outcomes) ==
    IF ev.is_directory \/ ~ev.supported
    THEN [invoked |-> 0, sleeps |-> <<>>, counted |-> "none"]
    ELSE LET r == _execute_callback_with_retry(n, outcomes)
         IN [invoked |-> r.invoked, sleeps |-> r.sleeps,
             counted |-> IF r.raised THEN "none"
                         ELSE IF r.ret THEN "files_processed"
                         ELSE "files_failed"]

\* ------------------------------------------------- main(), start(), stop()
\* The main thread as a stack of frames, the last one running: main() in
\* its try or its finally, start() at one of its statements or in its
\* finally (with a SystemExit to raise again after it, or without), stop()
\* at one of its statements, and handle_signal, which runs on top of
\* whatever the signal interrupted.
MaxSignals == 3

StartPcs == {"start.begin", "start.backlog", "start.watcher", "start.loop"}
StartFinallyPcs == {"start.finally", "start.finally.SystemExit"}
StopPcs == {"stop.check", "stop.set", "stop.watcher", "stop.notifier", "stop.stats"}

\* The application before main(): main.py 30-60.  watcher is "None", or
\* "created" (FileWatcher(...) returned), or "started"; stops and closes
\* count the calls of watcher.stop() and of notifier.close(); exc is the
\* exception propagating from the running frame.
NoApp ==
    [running |-> FALSE, watcher |-> "None", stops |-> 0, closes |-> 0,
     stack |-> <<>>, exc |-> "none", signals |-> 0, exited |-> FALSE]

Top(stack) == stack[Len(stack)]
Pop(stack) == SubSeq(stack, 1, Len(stack) - 1)
SetTop(stack, pc) == [stack EXCEPT ![Len(stack)] = pc]

\* A stop() that does not look at self.running.
StopFrameUnguarded(app) ==
    LET pc == Top(app.stack)
    IN CASE pc = "stop.check" -> [app EXCEPT !.stack = SetTop(@, "stop.set")]
         [] pc = "stop.set" ->
              [app EXCEPT !.running = FALSE, !.stack = SetTop(@, "stop.watcher")]
         [] pc = "stop.watcher" ->
              [app EXCEPT !.stops = IF app.watcher = "None" THEN @ ELSE @ + 1,
                          !.stack = SetTop(@, "stop.notifier")]
         [] pc = "stop.notifier" ->
              [app EXCEPT !.closes = @ + 1, !.stack = SetTop(@, "stop.stats")]
         [] OTHER -> [app EXCEPT !.stack = Pop(@)]

\* SecondBrainOCR.stop, a statement at a time: main.py 476-503.
StopFrame(app) ==
    LET pc == Top(app.stack)
    IN CASE pc = "stop.check" ->
              IF ~app.running
              THEN [app EXCEPT !.stack = Pop(@)]
              ELSE [app EXCEPT !.stack = SetTop(@, "stop.set")]
         [] pc = "stop.set" ->
              [app EXCEPT !.running = FALSE, !.stack = SetTop(@, "stop.watcher")]
         [] pc = "stop.watcher" ->
              [app EXCEPT !.stops = IF app.watcher = "None" THEN @ ELSE @ + 1,
                          !.stack = SetTop(@, "stop.notifier")]
         [] pc = "stop.notifier" ->
              [app EXCEPT !.closes = @ + 1, !.stack = SetTop(@, "stop.stats")]
         [] OTHER -> [app EXCEPT !.stack = Pop(@)]

\* SecondBrainOCR.start, a statement at a time: main.py 431-474.  made is
\* how far the creation of the watcher gets: "started", or "created" when
\* watcher.start() raises, or "None" when FileWatcher(...) raises.
StartFrame(app, made) ==
    LET pc == Top(app.stack)
    IN CASE pc = "start.begin" ->
              [app EXCEPT !.running = TRUE, !.stack = SetTop(@, "start.backlog")]
         [] pc = "start.backlog" -> [app EXCEPT !.stack = SetTop(@, "start.watcher")]
         [] pc = "start.watcher" ->
              IF made = "started"
              THEN [app EXCEPT !.watcher = made, !.stack = SetTop(@, "start.loop")]
              ELSE [app EXCEPT !.watcher = made, !.exc = "Exception"]
         [] pc = "start.loop" ->
              IF app.running
              THEN app
              ELSE [app EXCEPT !.stack = Append(SetTop(@, "start.finally"), "stop.check")]
         [] pc = "start.finally" -> [app EXCEPT !.stack = Pop(@)]
         [] OTHER -> [app EXCEPT !.stack = Pop(@), !.exc = "SystemExit"]

\* main(), after app.start() has returned, and after the app.stop() of its
\* finally has: main.py 620-630.
MainFrame(app) ==
    IF Top(app.stack) = "main.try"
    THEN [app EXCEPT !.stack = Append(SetTop(@, "main.finally"), "stop.check")]
    ELSE [app EXCEPT !.stack = <<>>, !.exited = TRUE]

\* handle_signal after its self.stop() has returned: sys.exit(0), main.py
\* 599.
HandleSignalFrame(app) == [app EXCEPT !.stack = Pop(@), !.exc = "SystemExit"]

\* The exception leaves the running frame, or is caught by it: stop()
\* catches Exception inside its try, start() catches Exception and runs its
\* finally, main() catches everything and runs its finally.
Propagate(app) ==
    LET pc == Top(app.stack)
    IN CASE pc \in StopPcs \ {"stop.check", "stop.set"} /\ app.exc = "Exception" ->
              [app EXCEPT !.stack = Pop(@), !.exc = "none"]
         [] pc \in StartPcs ->
              [app EXCEPT !.stack = Append(SetTop(@, IF app.exc = "SystemExit"
                                                     THEN "start.finally.SystemExit"
                                                     ELSE "start.finally"),
                                           "stop.check"),
                          !.exc = "none"]
         [] pc = "main.try" ->
              [app EXCEPT !.stack = Append(SetTop(@, "main.finally"), "stop.check"),
                          !.exc = "none"]
         [] pc = "main.finally" -> [app EXCEPT !.stack = <<>>, !.exited = TRUE]
         [] OTHER -> [app EXCEPT !.stack = Pop(@)]

\* A SIGINT or SIGTERM is delivered: handle_signal runs in the main thread,
\* on top of the frame it interrupts, and calls self.stop(): main.py 586-598.
Deliver(app) ==
    [app EXCEPT !.signals = @ + 1,
                !.stack = @ \o <<"handle_signal", "stop.check">>]

\* ------------------------------------------------------ threads of start()
\* The threads that call process_file: the main thread, in the backlog loop
\* of process_existing_files, and the observer thread, in which watchdog
\* calls on_created for one event after the other.
Threads == {"main", "observer"}

\* Where a thread is.  main: "init" (start() not called), "loop" (in the
\* backlog loop, between two files), "watching" (in the sleep loop).
\* observer: "unstarted", "idle" (waiting for an event).  Both: "run" (in
\* process_file, before mark_processed), "saving" (in mark_processed: the
\* set is updated, _save_state has built its data and not yet replaced the
\* file), "stopped".
InProcessFile == {"run", "saving"}

\* The most events waiting in the observer's queue.
MaxQueue == 2

NoThreads ==
    [pc |-> [main |-> "init", observer |-> "unstarted"],
     backlog |-> <<>>, queue |-> <<>>,
     created |-> {}, passed |-> {},
     path |-> [th \in Threads |-> <<>>],
     data |-> [th \in Threads |-> Absent]]

\* A start() that creates and starts the FileWatcher before the backlog.
start_watcher_first(t, mem) ==
    [NoThreads EXCEPT
        !.pc = [main |-> "loop", observer |-> "idle"],
        !.backlog = [i \in 1..Len(scan_existing_files(t, mem)) |->
                        SlotPath(scan_existing_files(t, mem)[i])]]

\* start() up to the backlog loop: process_existing_files has the list of
\* scan_existing_files, and no FileWatcher exists yet.
start(t, mem) ==
    [NoThreads EXCEPT
        !.pc = [main |-> "loop", observer |-> "unstarted"],
        !.backlog = [i \in 1..Len(scan_existing_files(t, mem)) |->
                        SlotPath(scan_existing_files(t, mem)[i])]]

\* Where a thread is after process_file has returned to it.
Resting(thd) == IF thd = "main" THEN "loop" ELSE "idle"

\* ------------------------------------------------------- retry executors
\* An outcome of one call of an external service: it returns ("ok"), or it
\* raises an exception of class cls whose status_code attribute is status.
\* status_code None is written NoStatus.
NoStatus == 0

Err(cls, status) == [cls |-> cls, status |-> status]

Ok == Err("ok", NoStatus)

\* The exceptions of azure.core met by the OCR and the search clients.
\* ClientAuthenticationError is a subclass of HttpResponseError; it carries
\* the status of the response, or None when raised without one.
AzureErrors ==
    {Err("ClientAuthenticationError", st) : st \in {NoStatus, 401}}
    \cup {Err("HttpResponseError", st) : st \in {NoStatus, 400, 429, 500}}
    \cup {Err("ServiceRequestError", NoStatus), Err("ServiceResponseError", NoStatus),
          Err("ValueError", NoStatus), Err("Exception", NoStatus)}

\* The exceptions of the openai client.  RateLimitError is the error of a
\* 429 response; the other responses with an error status (401 among them)
\* raise another subclass of APIError, written APIStatusError.
OpenAIErrors ==
    {Err("RateLimitError", 429), Err("APITimeoutError", NoStatus),
     Err("APIConnectionError", NoStatus), Err("APIError", NoStatus),
     Err("ValueError", NoStatus), Err("Exception", NoStatus)}
    \cup {Err("APIStatusError", st) : st \in {400, 401, 500}}

Sites == {"ocr", "embedding", "indexer"}

SiteErrors(site) == IF site = "embedding" THEN OpenAIErrors ELSE AzureErrors

\* ocr.py 101-139: what _perform_ocr_with_retry does with an exception:
\* "stop" (return None), or the kind of delay before the next attempt.
ClassifyOCR(e) ==
    IF e.cls = "ClientAuthenticationError" THEN "stop"
    ELSE IF e.cls = "HttpResponseError"
    THEN IF e.status = NoStatus THEN "linear"
         ELSE IF e.status = 429 THEN "exponential"
         ELSE IF e.status >= 500 THEN "linear"
         ELSE "stop"
    ELSE IF e.cls \in {"ServiceRequestError", "ServiceResponseError"} THEN "linear"
    ELSE "stop"

\* embeddings.py 83-133: the same for _generate_embedding_with_retry.
ClassifyEmbedding(e) ==
    IF e.cls = "RateLimitError" THEN "exponential"
    ELSE IF e.cls \in {"APITimeoutError", "APIConnectionError"} THEN "linear"
    ELSE IF e.cls \in {"APIStatusError", "APIError"}
    THEN IF e.status # NoStatus /\ e.status >= 500 THEN "linear" ELSE "stop"
    ELSE "stop"

\* indexer.py 184-237: the same for _execute_with_retry.  The first clause,
\* except (ServiceRequestError, HttpResponseError), also takes
\* ClientAuthenticationError, a subclass of HttpResponseError, so the later
\* clause for it is never reached.
ClassifyIndexer(e) ==
    IF e.cls \in {"ServiceRequestError", "HttpResponseError", "ClientAuthenticationError"}
    THEN IF e.status # NoStatus /\ e.status < 500 /\ e.status # 429
         THEN "stop"
         ELSE "exponential"
    ELSE IF e.cls = "ValueError" THEN "stop"
    ELSE "constant"

\* A classification that retries everything with the linear delay.
ClassifyRetryAll(site, e) == "linear"

Classify(site, e) ==
    CASE site = "ocr" -> ClassifyOCR(e)
      [] site = "embedding" -> ClassifyEmbedding(e)
      [] site = "indexer" -> ClassifyIndexer(e)

\* A delay that is exponential for every kind.
DelayExponential(kind, attempt) == 2 ^ (attempt - 1)

\* The time.sleep argument after failed attempt `attempt` (1-based), in
\* units of base_delay: ocr.py 110, 117; embeddings.py 87, 98, 119;
\* indexer.py 207, 235.
Delay(kind, attempt) ==
    CASE kind = "exponential" -> 2 ^ (attempt - 1)
      [] kind = "linear" -> attempt
      [] kind = "constant" -> 1

\* The retry loop of a site from attempt `attempt` (1-based) on, with n the
\* site's max_retries and sched[k] the outcome of the k-th call.  Result:
\* result ("ok" or "none"), invoked (calls of the service), sleeps (the
\* time.sleep arguments in order, in units of base_delay).
RECURSIVE RetryLoop(_, _, _, _)
RetryLoop(site, n, sched, attempt) ==
    IF attempt > n
    THEN [result |-> "none", invoked |-> 0, sleeps |-> <<>>]
    ELSE IF sched[attempt] = Ok
    THEN [result |-> "ok", invoked |-> 1, sleeps |-> <<>>]
    ELSE LET kind == Classify(site, sched[attempt])
         IN IF kind = "stop"
            THEN [result |-> "none", invoked |-> 1, sleeps |-> <<>>]
            ELSE LET r == RetryLoop(site, n, sched, attempt + 1)
                 IN [result |-> r.result, invoked |-> 1 + r.invoked,
                     sleeps |-> (IF attempt < n
                                 THEN <<Delay(kind, attempt)>>
                                 ELSE <<>>) \o r.sleeps]

\* An executor that starts over once when its attempts are used up.
ExecuteWithRetryTwice(site, n, sched) ==
    LET a == RetryLoop(site, n, sched, 1)
        b == RetryLoop(site, n, sched, 1)
    IN IF a.invoked < n \/ a.result = "ok" THEN a
       ELSE [result |-> b.result, invoked |-> a.invoked + b.invoked,
             sleeps |-> a.sleeps \o b.sleeps]

\* OCRProcessor._perform_ocr_with_retry,
\* EmbeddingGenerator._generate_embedding_with_retry and
\* SearchIndexer._execute_with_retry.
ExecuteWithRetry(site, n, sched) == RetryLoop(site, n, sched, 1)

\* ocr.py 30, embeddings.py 25, indexer.py 43: max_retries of the executors.
ExecutorMaxRetries == 3

\* The values of max_retries explored: the default, and one more (with
\* three attempts the linear and the exponential delays are the same).
AttemptLimits == {ExecutorMaxRetries, ExecutorMaxRetries + 1}

\* Every sequence of outcomes of n calls.
Schedules(site, n) == [1..n -> SiteErrors(site) \cup {Ok}]

\* n calls that all end as o.
Always(n, o) == [k \in 1..n |-> o]

\* A file handed to the Extractor: whether the path exists and is a regular
\* file, whether its suffix is a supported one, and its size in MB.
max_size == 50

Files ==
    [exists : BOOLEAN, is_file : BOOLEAN, supported : BOOLEAN,
     size : {1, max_size, max_size + 1}]

GoodFile == [exists |-> TRUE, is_file |-> TRUE, supported |-> TRUE, size |-> 1]

\* A validation that lets every file through.
_validate_file_any(f) == TRUE

\* OCRProcessor._validate_file
_validate_file(f) ==
    /\ f.exists
    /\ f.supported
    /\ f.size <= max_size
    /\ f.is_file

\* OCRProcessor.extract_text_with_metadata on file f, when the service
\* answers by sched and a result holds `content` ("text" or "empty").
\* Result: ret (as the extract outcome of a run), invoked, sleeps.
extract_text_with_metadata(f, n, sched, content) ==
    IF ~_validate_file(f)
    THEN [ret |-> "none", invoked |-> 0, sleeps |-> <<>>]
    ELSE LET r == ExecuteWithRetry("ocr", n, sched)
         IN [ret |-> IF r.result = "ok" THEN content ELSE "none",
             invoked |-> r.invoked, sleeps |-> r.sleeps]

\* A text handed to the Embedder: its length, and whether it is whitespace
\* only.
max_text_length == 8000

Texts ==
    {t \in [len : {0, 1, max_text_length, max_text_length + 1}, blank : BOOLEAN] :
        t.len = 0 => t.blank}

GoodText == [len |-> 1, blank |-> FALSE]

\* A validation without the limit on the length.
_validate_text_any_length(t) ==
    /\ t.len # 0
    /\ ~t.blank

\* EmbeddingGenerator._validate_text
_validate_text(t) ==
    /\ t.len # 0
    /\ ~t.blank
    /\ t.len <= max_text_length

\* EmbeddingGenerator.generate_embedding.  Result: ret (as the embed outcome
\* of a run), invoked, sleeps.
generate_embedding(t, n, sched) ==
    IF ~_validate_text(t)
    THEN [ret |-> "none", invoked |-> 0, sleeps |-> <<>>]
    ELSE LET r == ExecuteWithRetry("embedding", n, sched)
         IN [ret |-> IF r.result = "ok" THEN "vector" ELSE "none",
             invoked |-> r.invoked, sleeps |-> r.sleeps]

\* ------------------------------------------------------------------ state
VARIABLES
    alive,            \* the process is running (a StateManager exists)
    auto_backup,      \* StateManager.auto_backup
    processed_files,  \* StateManager.processed_files
    disk,             \* the ledger file, its backup and its temp file
    last,             \* the operation that led to this state, and its result
    acked,            \* the paths for which mark_processed has returned True
    index_total,      \* successful index_document calls per identity, ever
    index_life,       \* the same, since the ledger was last loaded
    nops              \* operations, crashes and restarts so far

vars ==
    <<alive, auto_backup, processed_files, disk, last, acked, index_total, index_life,
      nops>>

\* Every action is one more step of the behaviour.
Step == nops < MaxOps /\ nops' = nops + 1

\* The most successful index calls per identity a behaviour goes to.
MaxIndex == 2

\* FileIdentity of the data model: NFKC, then whitespace runs collapsed.
FileIdentity(p) == CollapseSpace(NFKC(p))

\* The files of the watched tree (str(Path) is never empty).
FilePaths == {P_NNBSP, P_SPACE, P_C}

Ids == {FileIdentity(p) : p \in FilePaths}

\* The ledger files a process can find when it starts: none, a corrupt or
\* mis-shaped one, or a valid one (written by this or an earlier version, so
\* its entries need not be in normal form).
InitialMain ==
    {Absent, Garbage, NotDict, NotList, Valid(<<>>), Valid(<<P_C>>), Valid(<<P_NNBSP>>)}

InitialBackup == {Absent, Garbage, Valid(<<P_C>>)}

NoLast ==
    [op |-> "none", path |-> <<>>, ret |-> FALSE, log |-> "none", calls |-> <<>>,
     index |-> "none", failed_counted |-> FALSE, saved |-> FALSE, reads |-> 0, restores |-> 0, raised |-> FALSE, pre |-> Absent,
     prebackup |-> Absent, faulty |-> FALSE, failures |-> 0, sleeps |-> <<>>,
     extract |-> "uncalled", embed |-> "uncalled", notified |-> "none",
     site |-> "none", limit |-> 0, sched |-> <<>>, valid |-> TRUE,
     result |-> "none", invoked |-> 0,
     file |-> GoodFile, text |-> GoodText,
     mode |-> "none", pc |-> "none", signalled |-> FALSE,
     mark_ret |-> FALSE, event |-> "none", pre_mem |-> {},
     tree |-> EmptyTree, found |-> <<>>,
     doc_id |-> <<>>, content |-> "none", now |-> 0,
     pre_disk |-> Disk(Absent, Absent, Absent),
     threads |-> NoThreads,
     chunked |-> <<>>, chunks |-> <<>>, max_tokens |-> 0, overlap |-> 0,
     windows |-> <<>>,
     rotate_failed |-> FALSE, clean |-> TRUE,
     fs_event |-> [is_directory |-> FALSE, supported |-> TRUE],
     app |-> NoApp,
     services |-> [ocr |-> 0, embedding |-> 0, indexer |-> 0]]

\* A load met a file-system fault (a read or a restore failed).
Faulty(lf) == lf.restore \/ \E i \in 1..max_retries : lf.reads[i] # "ok"

\* StateManager.__init__ over disk d: the state a new process starts in.
Constructed(d, lf) ==
    LET r == _load_state(d, lf)
    IN /\ alive' = ~r.raised
       /\ processed_files' = r.processed
       /\ disk' = r.disk
       /\ last' = [NoLast EXCEPT !.op = "load", !.reads = r.reads,
                                 !.restores = r.restores, !.raised = r.raised,
                                 !.pre = d.main, !.prebackup = d.backup,
                                 !.faulty = Faulty(lf)]

\* The ledger files the application is started over in Spec.
AppMain == {Absent, Valid(<<P_NNBSP>>)}

AppBackup == {Absent}

\* The state after SecondBrainOCR.__init__ / StateManager.__init__ over one
\* of the given ledger files.
InitOver(mains, backups) ==
    /\ auto_backup \in BOOLEAN
    /\ nops = 0
    /\ acked = {}
    /\ index_total = [i \in Ids |-> 0]
    /\ index_life = [i \in Ids |-> 0]
    /\ \E m \in mains, b \in backups, lf \in LoadFaults :
          LET r == _load_state(Disk(m, b, Absent), lf)
          IN /\ alive = ~r.raised
             /\ processed_files = r.processed
             /\ disk = r.disk
             /\ last = [NoLast EXCEPT !.op = "load", !.reads = r.reads,
                                      !.restores = r.restores, !.raised = r.raised,
                                      !.pre = m, !.prebackup = b,
                                      !.faulty = Faulty(lf)]

Init == InitOver(AppMain, AppBackup)

LedgerInit == InitOver(InitialMain, InitialBackup)

\* ---------------------------------------------------------------- actions
\* No call of a collaborator is waiting for its caller to take the result.
Idle == last.op \in {"load", "idle"}

\* A new process is started: a StateManager is built over the files on disk.
Restart ==
    /\ ~alive
    /\ Step
    /\ \E lf \in LoadFaults : Constructed(disk, lf)
    /\ index_life' = [i \in Ids |-> 0]
    /\ UNCHANGED <<auto_backup, acked, index_total>>

\* The process is killed between two operations.
Crash ==
    /\ alive
    /\ Step
    /\ alive' = FALSE
    /\ processed_files' = {}
    /\ last' = [NoLast EXCEPT !.op = "crash"]
    /\ UNCHANGED <<auto_backup, disk, acked, index_total, index_life>>

\* state_manager.mark_processed(p), run to its return.
MarkProcessed(p, f) ==
    /\ alive
    /\ Step
    /\ \E r \in {mark_processed(processed_files, disk, auto_backup, p, f)} :
          /\ processed_files' = r.mem
          /\ disk' = r.disk
          /\ acked' = IF r.ret THEN acked \cup {p} ELSE acked
          /\ last' = [NoLast EXCEPT !.op = "mark_processed", !.path = p,
                                    !.ret = r.ret, !.saved = r.saved,
                                    !.failures = r.failures, !.sleeps = r.sleeps]
    /\ UNCHANGED <<alive, auto_backup, index_total, index_life>>

\* The process is killed inside the _save_state of mark_processed(p), after
\* the k-th file-system change of that save.
CrashInSave(p, f, k) ==
    /\ alive
    /\ Step
    /\ \E r \in {mark_processed(processed_files, disk, auto_backup, p, f)} :
          /\ k \in 1..Len(r.trace)
          /\ disk' = r.trace[k]
    /\ alive' = FALSE
    /\ processed_files' = {}
    /\ last' = [NoLast EXCEPT !.op = "crash_in_save", !.path = p]
    /\ UNCHANGED <<auto_backup, acked, index_total, index_life>>

\* The run got True from index_document.
Indexed(r) == r.index = "true"

\* What the call of `stage` returned in a run that made the calls given
\* ("uncalled": the stage was not called).
Returned(calls, stage, outcome) ==
    IF stage \in Range(calls) THEN outcome ELSE "uncalled"

\* success: the run got True from index_document.
Count(c, p, success) ==
    IF success THEN [c EXCEPT ![FileIdentity(p)] = @ + 1] ELSE c

\* app.process_file(p), run to its return.
ProcessFile(p, env) ==
    /\ alive
    /\ Step
    /\ \E r \in {process_file(processed_files, disk, auto_backup, p, env)} :
          /\ Indexed(r) => index_total[FileIdentity(p)] < MaxIndex
          /\ processed_files' = r.mem
          /\ disk' = r.disk
          /\ acked' = IF r.marked /\ r.mark_ret THEN acked \cup {p} ELSE acked
          /\ index_total' = Count(index_total, p, Indexed(r))
          /\ index_life' = Count(index_life, p, Indexed(r))
          /\ last' = [NoLast EXCEPT !.op = "process_file", !.path = p, !.ret = r.ret,
                                    !.log = r.log, !.calls = r.calls,
                                    !.index = r.index,
                                    !.failed_counted = r.failed_counted,
                                    !.saved = r.marked, !.raised = r.raised,
                                    !.mark_ret = r.mark_ret, !.event = r.event,
                                    !.pre_mem = processed_files,
                                    !.pre_disk = disk,
                                    !.extract = Returned(r.calls, "extract", env.extract),
                                    !.embed = Returned(r.calls, "embed", env.embed),
                                    !.notified = r.notified]
    /\ UNCHANGED <<alive, auto_backup>>

\* The process is killed inside process_file(p) after index_document returned
\* True: before mark_processed (k = 0) or after the k-th file-system change
\* of its save.
CrashInRun(p, env, k) ==
    /\ alive
    /\ Step
    /\ \E r \in {process_file(processed_files, disk, auto_backup, p, env)} :
          /\ Indexed(r)
          /\ index_total[FileIdentity(p)] < MaxIndex
          /\ k \in 0..Len(r.trace)
          /\ disk' = IF k = 0 THEN disk ELSE r.trace[k]
    /\ alive' = FALSE
    /\ processed_files' = {}
    /\ index_total' = Count(index_total, p, TRUE)
    /\ index_life' = Count(index_life, p, TRUE)
    /\ last' = [NoLast EXCEPT !.op = "crash_in_run", !.path = p]
    /\ UNCHANGED <<auto_backup, acked>>

\* The longest trace of a save without failing passes: the backup rename,
\* the temp file opened, written and renamed.
MaxTrace == 1 + 3

\* SearchIndexer.index_document: one call of search_client.upload_documents,
\* made directly.  o is what the call does and succeeded is result[0].succeeded
\* of its answer.  ValueError is caught (indexer.py 351-353), every other
\* exception leaves index_document.
index_document(o, succeeded) ==
    [ret |-> IF o = Ok THEN (IF succeeded THEN "true" ELSE "false")
             ELSE IF o.cls = "ValueError" THEN "false"
             ELSE "raise",
     invoked |-> 1, sleeps |-> <<>>]

\* scan_existing_files over the tree t, run to its return.
Scan(t) ==
    /\ alive
    /\ Idle
    /\ last' = [NoLast EXCEPT !.op = "scan", !.tree = t,
                              !.found = scan_existing_files(t, processed_files)]
    /\ UNCHANGED <<alive, auto_backup, processed_files, disk, acked, index_total,
                   index_life, nops>>

\* A ledger operation whose result is r has returned.
Mutated(op, r) ==
    /\ processed_files' = r.mem
    /\ disk' = r.disk
    /\ last' = [NoLast EXCEPT !.op = op, !.ret = r.ret, !.saved = r.saved,
                              !.failures = r.failures, !.sleeps = r.sleeps,
                              !.pre_mem = processed_files, !.pre_disk = disk]
    /\ UNCHANGED <<alive, auto_backup, acked, index_total, index_life>>

\* state_manager.mark_processed(p), run to its return, in a history of
\* saves: whether the backup rename of this save failed, and whether every
\* save so far has returned True.
MarkInHistory(p, f) ==
    /\ alive
    /\ Step
    /\ last.op \in {"load", "mark_in_history"}
    /\ \E r \in {mark_processed(processed_files, disk, auto_backup, p, f)} :
          /\ processed_files' = r.mem
          /\ disk' = r.disk
          /\ last' = [NoLast EXCEPT !.op = "mark_in_history", !.path = p,
                                    !.ret = r.ret, !.saved = r.saved,
                                    !.failures = r.failures,
                                    !.pre_mem = processed_files, !.pre_disk = disk,
                                    !.rotate_failed = f.backup,
                                    !.clean = last.clean /\ (r.saved => r.ret)]
    /\ UNCHANGED <<alive, auto_backup, acked, index_total, index_life>>

\* state_manager.mark_batch_processed(file_paths), run to its return.
MarkBatchProcessed(file_paths, f) ==
    /\ alive
    /\ Step
    /\ \E r \in {mark_batch_processed(processed_files, disk, auto_backup, file_paths, f)} :
          Mutated("mark_batch_processed", r)

\* state_manager.clear_processed(), run to its return.
ClearProcessed(f) ==
    /\ alive
    /\ Step
    /\ \E r \in {clear_processed(processed_files, disk, auto_backup, f)} :
          Mutated("clear_processed", r)

\* state_manager.remove_processed(p), run to its return.
RemoveProcessed(p, f) ==
    /\ alive
    /\ Step
    /\ \E r \in {remove_processed(processed_files, disk, auto_backup, p, f)} :
          Mutated("remove_processed", r)

\* The characters of the paths handed to index_document: the two path
\* separators, the dot, the underscore, the dash, the equals sign, a letter,
\* a digit, the space and U+202F.
DocChars == {"/", "\\", ".", "_", "-", "=", "a", "1", "SP", "NNBSP"}

\* The class \w of a str pattern: letters, digits and the underscore.
IsWord(c) == c \in {"a", "1", "_"}

\* str.replace(old, new) for one-character strings.
replace(q, old, new) == [i \in 1..Len(q) |-> IF q[i] = old THEN new ELSE q[i]]

\* re.sub(r"[^\w\-=]", "_", q)
SubNonWord(q) ==
    [i \in 1..Len(q) |-> IF IsWord(q[i]) \/ q[i] \in {"-", "="} THEN q[i] ELSE "_"]

\* str.lstrip("_")
RECURSIVE lstrip(_)
lstrip(q) == IF q # <<>> /\ Head(q) = "_" THEN lstrip(Tail(q)) ELSE q

\* A document ID that keeps its leading underscores.
doc_id_unstripped(file_path) ==
    SubNonWord(replace(replace(file_path, "/", "_"), "\\", "_"))

\* indexer.py 319-322: the document ID of a path.
doc_id(file_path) ==
    lstrip(SubNonWord(replace(replace(file_path, "/", "_"), "\\", "_")))

\* indexer.py 324-340: the document index_document builds from the path,
\* the content and the time of the call.
document(file_path, content, now) ==
    [id |-> doc_id(file_path), content |-> content, file_path |-> file_path,
     indexed_at |-> now]

\* index_document(file_path, content, ...) at time now builds its document.
BuildDocument(file_path, content, now) ==
    /\ alive
    /\ Idle
    /\ \E doc \in {document(file_path, content, now)} :
          last' = [NoLast EXCEPT !.op = "document", !.path = file_path,
                                 !.doc_id = doc.id, !.content = content, !.now = now]
    /\ UNCHANGED <<alive, auto_backup, processed_files, disk, acked, index_total,
                   index_life, nops>>

\* ocr_processor.extract_text_with_metadata(f), run to its return.
Extract(f, n, sched, content) ==
    /\ alive
    /\ Idle
    /\ \E r \in {extract_text_with_metadata(f, n, sched, content)} :
          last' = [NoLast EXCEPT !.op = "extract", !.site = "ocr", !.limit = n,
                                 !.file = f,
                                 !.sched = sched, !.valid = _validate_file(f),
                                 !.result = r.ret, !.invoked = r.invoked,
                                 !.sleeps = r.sleeps]
    /\ UNCHANGED <<alive, auto_backup, processed_files, disk, acked, index_total,
                   index_life, nops>>

\* embedding_generator.generate_embedding(t), run to its return.
Embed(t, n, sched) ==
    /\ alive
    /\ Idle
    /\ \E r \in {generate_embedding(t, n, sched)} :
          last' = [NoLast EXCEPT !.op = "embed", !.site = "embedding", !.limit = n,
                                 !.text = t,
                                 !.sched = sched, !.valid = _validate_text(t),
                                 !.result = r.ret, !.invoked = r.invoked,
                                 !.sleeps = r.sleeps]
    /\ UNCHANGED <<alive, auto_backup, processed_files, disk, acked, index_total,
                   index_life, nops>>

\* indexer._execute_with_retry(operation), run to its return.
Execute(n, sched) ==
    /\ alive
    /\ Idle
    /\ \E r \in {ExecuteWithRetry("indexer", n, sched)} :
          last' = [NoLast EXCEPT !.op = "execute", !.site = "indexer", !.limit = n,
                                 !.sched = sched, !.result = r.result,
                                 !.invoked = r.invoked, !.sleeps = r.sleeps]
    /\ UNCHANGED <<alive, auto_backup, processed_files, disk, acked, index_total,
                   index_life, nops>>

\* indexer.index_document(...), run to its return, with the search service
\* answering the calls by sched.
IndexDocument(n, sched, succeeded) ==
    /\ alive
    /\ Idle
    /\ \E r \in {index_document(sched[1], succeeded)} :
          last' = [NoLast EXCEPT !.op = "index_document", !.site = "indexer",
                                 !.limit = n, !.sched = sched, !.result = r.ret,
                                 !.invoked = r.invoked, !.sleeps = r.sleeps]
    /\ UNCHANGED <<alive, auto_backup, processed_files, disk, acked, index_total,
                   index_life, nops>>

\* The calls of a service made by a run that made the calls given.
Invoked(calls, stage, count) == IF stage \in Range(calls) THEN count ELSE 0

\* app.process_file(p) with the real Extractor and Embedder: file f, whose
\* text (if extracted) is t, with the OCR service answering by osched, the
\* embedding service by esched, and upload_documents ending as ix.
PipelineRun(p, f, content, t, osched, esched, ix) ==
    /\ alive
    /\ Idle
    /\ \E x \in {extract_text_with_metadata(f, ExecutorMaxRetries, osched, content)},
          m \in {generate_embedding(t, ExecutorMaxRetries, esched)} :
          \E r \in {process_file(processed_files, disk, auto_backup, p,
                                  Env(f.exists, f.is_file, x.ret, m.ret, ix,
                                      NoSaveFaults))} :
              /\ Indexed(r) => index_total[FileIdentity(p)] < MaxIndex
              /\ processed_files' = r.mem
              /\ disk' = r.disk
              /\ acked' = IF r.marked /\ r.mark_ret THEN acked \cup {p} ELSE acked
              /\ index_total' = Count(index_total, p, Indexed(r))
              /\ index_life' = Count(index_life, p, Indexed(r))
              /\ last' = [NoLast EXCEPT
                              !.op = "pipeline", !.path = p, !.ret = r.ret,
                              !.log = r.log, !.calls = r.calls, !.index = r.index,
                              !.raised = r.raised, !.file = f, !.text = t,
                              !.extract = Returned(r.calls, "extract", x.ret),
                              !.embed = Returned(r.calls, "embed", m.ret),
                              !.valid = _validate_file(f) /\ _validate_text(t),
                              !.services =
                                  [ocr |-> Invoked(r.calls, "extract", x.invoked),
                                   embedding |-> Invoked(r.calls, "embed", m.invoked),
                                   indexer |-> Invoked(r.calls, "index", 1)]]
    /\ UNCHANGED <<alive, auto_backup, nops>>

\* The caller has taken the result of the call.
Return ==
    /\ last.op \in {"extract", "embed", "execute", "index_document", "pipeline",
                   "document", "scan", "mark_processed", "chunk_text",
                   "on_created"}
    /\ last' = [NoLast EXCEPT !.op = "idle"]
    /\ UNCHANGED <<alive, auto_backup, processed_files, disk, acked, index_total,
                   index_life, nops>>

\* The states in which a run of process_file has ended.
TerminalPcs == {"Skipped", "Failed", "MarkedDone"}

\* process_file(p) is called by the backlog loop (mode "backlog", main
\* thread) or by the watcher's handler (mode "watcher", observer thread) and
\* goes through its checks: main.py 290-304.
StartRun(p, mode, present) ==
    /\ alive
    /\ Idle
    /\ last' = [NoLast EXCEPT
                    !.op = "run", !.path = p, !.mode = mode,
                    !.pc = IF ~present THEN "Failed"
                           ELSE IF is_processed(processed_files, p) THEN "Skipped"
                           ELSE "extract"]
    /\ UNCHANGED <<alive, auto_backup, processed_files, disk, acked, index_total,
                   index_life, nops>>

\* The next stage of the run in progress ends, well (ok) or not:
\* main.py 307-358.
StageStep(ok) ==
    /\ alive
    /\ last.op = "run"
    /\ last.pc \in {"extract", "embed", "index", "mark"}
    /\ \/ /\ last.pc \in {"extract", "embed"}
          /\ last' = [last EXCEPT !.pc = IF ~ok THEN "Failed"
                                         ELSE IF last.pc = "extract" THEN "embed"
                                         ELSE "index"]
          /\ UNCHANGED <<processed_files, disk, acked, index_total, index_life>>
       \/ /\ last.pc = "index"
          /\ ok => index_total[FileIdentity(last.path)] < MaxIndex
          /\ last' = [last EXCEPT !.pc = IF ok THEN "mark" ELSE "Failed"]
          /\ index_total' = Count(index_total, last.path, ok)
          /\ index_life' = Count(index_life, last.path, ok)
          /\ UNCHANGED <<processed_files, disk, acked>>
       \/ /\ last.pc = "mark"
          /\ ok
          /\ \E r \in {mark_processed(processed_files, disk, auto_backup, last.path,
                                       NoSaveFaults)} :
                /\ processed_files' = r.mem
                /\ disk' = r.disk
                /\ acked' = IF r.ret THEN acked \cup {last.path} ELSE acked
          /\ last' = [last EXCEPT !.pc = "MarkedDone"]
          /\ UNCHANGED <<index_total, index_life>>
    /\ UNCHANGED <<alive, auto_backup, nops>>

\* process_file has returned and no signal has come: the loop, or the
\* observer, goes on to the next file.
EndRun ==
    /\ alive
    /\ last.op = "run"
    /\ last.pc \in TerminalPcs
    /\ ~last.signalled
    /\ last' = [NoLast EXCEPT !.op = "idle"]
    /\ UNCHANGED <<alive, auto_backup, processed_files, disk, acked, index_total,
                   index_life, nops>>

\* SIGINT or SIGTERM while a run is in progress: handle_signal runs in the
\* main thread, calls stop() and then sys.exit(0).  In the backlog loop the
\* main thread is inside process_file, where SystemExit is raised: it leaves
\* process_file unless an except clause there catches it.  With the watcher
\* the run is in the observer thread and stop() waits for it in
\* observer.join(timeout=10.0).
handle_signal ==
    /\ alive
    /\ last.op = "run"
    /\ ~last.signalled
    /\ IF last.mode = "watcher"
       THEN /\ last' = [last EXCEPT !.signalled = TRUE]
            /\ UNCHANGED <<alive, processed_files>>
       ELSE IF ProcessCatches("SystemExit")
       THEN /\ last' = [last EXCEPT !.signalled = TRUE,
                                    !.pc = IF last.pc \in TerminalPcs THEN last.pc
                                           ELSE "Failed"]
            /\ UNCHANGED <<alive, processed_files>>
       ELSE /\ last' = [last EXCEPT !.op = "exit", !.signalled = TRUE]
            /\ alive' = FALSE
            /\ processed_files' = {}
    /\ UNCHANGED <<auto_backup, disk, acked, index_total, index_life, nops>>

\* The rest of the shutdown: observer.join has returned, because the
\* observer thread ended or because the ten seconds are over, stop()
\* returns and sys.exit(0) ends the process, and with it the observer
\* thread.
Exit ==
    /\ alive
    /\ last.op = "run"
    /\ last.signalled
    /\ last' = [last EXCEPT !.op = "exit"]
    /\ alive' = FALSE
    /\ processed_files' = {}
    /\ UNCHANGED <<auto_backup, disk, acked, index_total, index_life, nops>>

\* chunk_text(text, max_tokens, overlap) is called and returns.
ChunkText(text, max_tokens, overlap) ==
    /\ alive
    /\ Idle
    /\ last' = [NoLast EXCEPT !.op = "chunk_text", !.chunked = text,
                              !.max_tokens = max_tokens, !.overlap = overlap,
                              !.chunks = chunk_text(text, max_tokens, overlap),
                              !.windows = IF Len(text) <= max_tokens * 4 THEN <<>>
                                          ELSE WindowsFrom(text, 0, max_tokens * 4,
                                                           overlap * 4)]
    /\ UNCHANGED <<alive, auto_backup, processed_files, disk, acked, index_total,
                   index_life, nops>>

\* The observer calls handler.on_created(ev), and the handler returns.
OnCreated(ev, n, outcomes) ==
    /\ alive
    /\ Idle
    /\ \E r \in {handle_created(ev, n, outcomes)} :
          last' = [NoLast EXCEPT !.op = "on_created", !.fs_event = ev, !.limit = n,
                                 !.sched = outcomes, !.invoked = r.invoked,
                                 !.sleeps = r.sleeps, !.result = r.counted]
    /\ UNCHANGED <<alive, auto_backup, processed_files, disk, acked, index_total,
                   index_life, nops>>

\* ---- main(): main.py 602-630
\* The only variable main() and the frames above it change is last.
AppChanges(app) ==
    /\ last' = [last EXCEPT !.op = "main", !.app = app]
    /\ UNCHANGED <<alive, auto_backup, processed_files, disk, acked, index_total,
                   index_life, nops>>

\* main() has made the application, registered handle_signal and calls
\* app.start().
Main ==
    /\ alive
    /\ Idle
    /\ AppChanges([NoApp EXCEPT !.stack = <<"main.try", "start.begin">>])

InMain == last.op = "main" /\ ~last.app.exited

\* The running frame takes its next step.
FrameStep(made) ==
    /\ InMain
    /\ last.app.exc = "none"
    /\ LET pc == Top(last.app.stack)
       IN AppChanges(IF pc \in StopPcs THEN StopFrame(last.app)
                     ELSE IF pc \in StartPcs \cup StartFinallyPcs
                     THEN StartFrame(last.app, made)
                     ELSE IF pc = "handle_signal" THEN HandleSignalFrame(last.app)
                     ELSE MainFrame(last.app))

\* The exception in flight goes one frame down.
Unwind ==
    /\ InMain
    /\ last.app.exc # "none"
    /\ AppChanges(Propagate(last.app))

\* A signal arrives.
SignalDelivered ==
    /\ InMain
    /\ last.app.exc = "none"
    /\ last.app.signals < MaxSignals
    /\ AppChanges(Deliver(last.app))

\* ---- the threads of start(): main.py 431-469, watcher.py 90-129
\* start() is called: the backlog is scanned.
StartApp(t) ==
    /\ alive
    /\ Idle
    /\ last' = [NoLast EXCEPT !.op = "threads",
                              !.threads = start(t, processed_files)]
    /\ UNCHANGED <<alive, auto_backup, processed_files, disk, acked, index_total,
                   index_life, nops>>

\* The thread goes from from to to, with the threads record th.
Moved(thd, th, to) ==
    last' = [last EXCEPT !.threads = [th EXCEPT !.pc[thd] = to]]

\* The backlog loop calls process_file for its next file: main.py 398-405.
BacklogNext ==
    /\ last.op = "threads"
    /\ last.threads.pc["main"] = "loop"
    /\ last.threads.backlog # <<>>
    /\ Moved("main", [last.threads EXCEPT !.backlog = Tail(@),
                                          !.passed = @ \cup {Head(last.threads.backlog)},
                                          !.path["main"] = Head(last.threads.backlog)],
             "run")
    /\ UNCHANGED <<alive, auto_backup, processed_files, disk, acked, index_total,
                   index_life, nops>>

\* process_existing_files has returned: the FileWatcher is created and
\* started, and the main thread sleeps: main.py 448-462.
StartWatcher ==
    /\ last.op = "threads"
    /\ last.threads.pc["main"] = "loop"
    /\ last.threads.backlog = <<>>
    /\ last' = [last EXCEPT !.threads.pc = [main |-> "watching", observer |-> "idle"]]
    /\ UNCHANGED <<alive, auto_backup, processed_files, disk, acked, index_total,
                   index_life, nops>>

\* A file is created under the watched directory while an observer runs:
\* its event waits in the observer's queue.
FileCreated(p) ==
    /\ last.op = "threads"
    /\ last.threads.pc["observer"] \in {"idle"} \cup InProcessFile
    /\ Len(last.threads.queue) < MaxQueue
    /\ p \notin last.threads.created
    /\ last' = [last EXCEPT !.threads.queue = Append(@, p),
                            !.threads.created = @ \cup {p}]
    /\ UNCHANGED <<alive, auto_backup, processed_files, disk, acked, index_total,
                   index_life, nops>>

\* A file is created under the watched directory after the backlog scan
\* and before watcher.start(): no observer is there to see it, and the list
\* of process_existing_files is not taken again: main.py 380-384, 448-456.
FileCreatedUnwatched(p) ==
    /\ last.op = "threads"
    /\ last.threads.pc["main"] \in {"loop"} \cup InProcessFile
    /\ last.threads.pc["observer"] = "unstarted"
    /\ p \notin last.threads.created
    /\ last' = [last EXCEPT !.threads.created = @ \cup {p}]
    /\ UNCHANGED <<alive, auto_backup, processed_files, disk, acked, index_total,
                   index_life, nops>>

\* The observer thread takes the next event and calls on_created, which
\* calls process_file itself and returns after it: watcher.py 101-114.
on_created ==
    /\ last.op = "threads"
    /\ last.threads.pc["observer"] = "idle"
    /\ last.threads.queue # <<>>
    /\ Moved("observer", [last.threads EXCEPT !.queue = Tail(@),
                                              !.passed = @ \cup {Head(last.threads.queue)},
                                              !.path["observer"] = Head(last.threads.queue)],
             "run")
    /\ UNCHANGED <<alive, auto_backup, processed_files, disk, acked, index_total,
                   index_life, nops>>

\* process_file returns without mark_processed: the file is in the ledger
\* (skipped), or a stage has failed: main.py 292-313, 361-372.
RunEnds(thd) ==
    /\ last.op = "threads"
    /\ last.threads.pc[thd] = "run"
    /\ Moved(thd, last.threads, Resting(thd))
    /\ UNCHANGED <<alive, auto_backup, processed_files, disk, acked, index_total,
                   index_life, nops>>

\* The stages are done and mark_processed is called: the identity goes into
\* the set and _save_state builds the data it will write: state.py 323-330,
\* 220-223.
MarkBegins(thd) ==
    /\ last.op = "threads"
    /\ last.threads.pc[thd] = "run"
    /\ ~is_processed(processed_files, last.threads.path[thd])
    /\ processed_files' = processed_files \cup {_normalize_path(last.threads.path[thd])}
    /\ Moved(thd, [last.threads EXCEPT !.data[thd] = SaveData(processed_files')],
             "saving")
    /\ UNCHANGED <<alive, auto_backup, disk, acked, index_total, index_life, nops>>

\* _save_state replaces the ledger file by what it has written, and
\* process_file returns: state.py 232-240.
MarkEnds(thd) ==
    /\ last.op = "threads"
    /\ last.threads.pc[thd] = "saving"
    /\ disk' = [disk EXCEPT !.main = last.threads.data[thd]]
    /\ Moved(thd, last.threads, Resting(thd))
    /\ UNCHANGED <<alive, auto_backup, processed_files, acked, index_total,
                   index_life, nops>>

\* A signal: handle_signal calls stop() and sys.exit(0), and the process
\* ends with its observer thread: main.py 586-600.
Stopped ==
    /\ last.op = "threads"
    /\ last.threads.pc["main"] # "stopped"
    /\ last' = [last EXCEPT !.threads.pc = [main |-> "stopped", observer |-> "stopped"]]
    /\ alive' = FALSE
    /\ processed_files' = {}
    /\ UNCHANGED <<auto_backup, disk, acked, index_total, index_life, nops>>

\* ---------------------------------------------------------- specifications
\* The application: files are run through the pipeline, the process may be
\* killed and started again.
Next ==
    \/ \E p \in FilePaths, env \in ProcessEnvs : ProcessFile(p, env)
    \/ \E p \in FilePaths, env \in CrashEnvs, k \in 0..MaxTrace : CrashInRun(p, env, k)
    \/ Crash
    \/ Restart

Spec == Init /\ [][Next]_vars

\* The paths handed to mark_processed: two spellings of one identity, another
\* identity and the empty string. P_TAB, a third spelling, is only queried.
MarkPaths == {P_NNBSP, P_SPACE, P_C, P_EMPTY}

\* The ledger used through its own interface, as the tests and scripts do.
LedgerNext ==
    \/ \E p \in MarkPaths, f \in CanonicalSaveFaults : MarkProcessed(p, f)
    \/ \E p \in MarkPaths, f \in CrashSaveFaults, k \in 1..MaxTrace : CrashInSave(p, f, k)
    \/ Crash
    \/ Restart

LedgerSpec == LedgerInit /\ [][LedgerNext]_vars

\* The pipeline run with each kind of Notifier.
NotifyNext ==
    \E p \in FilePaths, env \in NotifyEnvs, n \in Notifications :
        ProcessFile(p, [env EXCEPT !.notify = n])

NotifySpec == Init /\ [][NotifyNext]_vars

\* The service answers every call with the same outcome, or answers the
\* last call of the run with success.
PipelineSchedules(site) ==
    {Always(ExecutorMaxRetries, o) : o \in SiteErrors(site) \cup {Ok}}
    \cup {[Always(ExecutorMaxRetries, o) EXCEPT ![ExecutorMaxRetries] = Ok] :
             o \in SiteErrors(site)}

\* The answers of a service to the calls of one run: every sequence of
\* outcomes of ExecutorMaxRetries calls, and the same outcome to every one
\* of n calls.
RunSchedules(site, n) ==
    {Always(n, o) : o \in SiteErrors(site) \cup {Ok}}
    \cup (IF n = ExecutorMaxRetries THEN Schedules(site, n) ELSE {})

\* The collaborators called on their own, and the pipeline run over them.
RetryNext ==
    \/ /\ Idle
       /\ \E f \in Files, n \in AttemptLimits : Extract(f, n, Always(n, Ok), "text")
    \/ /\ Idle
       /\ \E n \in AttemptLimits, content \in {"text", "empty"} :
             \E sched \in RunSchedules("ocr", n) : Extract(GoodFile, n, sched, content)
    \/ /\ Idle
       /\ \E t \in Texts, n \in AttemptLimits : Embed(t, n, Always(n, Ok))
    \/ /\ Idle
       /\ \E n \in AttemptLimits :
             \E sched \in RunSchedules("embedding", n) : Embed(GoodText, n, sched)
    \/ /\ Idle
       /\ \E n \in AttemptLimits :
             \E sched \in RunSchedules("indexer", n) : Execute(n, sched)
    \/ /\ Idle
       /\ \E p \in FilePaths, f \in {GoodFile, [GoodFile EXCEPT !.supported = FALSE]},
             content \in {"text", "empty"},
             t \in {GoodText, [GoodText EXCEPT !.len = max_text_length + 1]},
             osched \in PipelineSchedules("ocr"),
             esched \in PipelineSchedules("embedding"),
             ix \in {"true", "false", "raise"} :
             PipelineRun(p, f, content, t, osched, esched, ix)
    \/ /\ Idle
       /\ \E n \in AttemptLimits, o \in SiteErrors("indexer") \cup {Ok},
             succeeded \in BOOLEAN : IndexDocument(n, Always(n, o), succeeded)
    \/ Return

\* A process started over no ledger.
RetryInit == InitOver({Absent}, {Absent})

RetrySpec == RetryInit /\ [][RetryNext]_vars

\* The lists handed to mark_batch_processed: empty, without a valid path,
\* and with one or two valid paths, of one identity or of two.
Batches ==
    {<<>>, <<P_EMPTY>>, <<P_C>>, <<P_C, P_EMPTY>>, <<P_NNBSP, P_C>>, <<P_SPACE, P_NNBSP>>}

\* The saves explored for the four operations: without a fault, with a
\* failing mkdir, with a failing backup, with a first pass that fails at
\* each step, and with every pass failing.
MutateSaveFaults ==
    {NoSaveFaults, [NoSaveFaults EXCEPT !.mkdir = TRUE],
     [NoSaveFaults EXCEPT !.backup = TRUE]}
    \cup {[NoSaveFaults EXCEPT !.writes[1] = w] : w \in WriteOutcomes \ {"ok"}}
    \cup {[NoSaveFaults EXCEPT !.writes = [i \in 1..max_retries |-> "write_fail"]]}

\* The four operations that change the ledger.
MutateNext ==
    \/ \E p \in MarkPaths, f \in MutateSaveFaults : MarkProcessed(p, f)
    \/ \E b \in Batches, f \in MutateSaveFaults : MarkBatchProcessed(b, f)
    \/ \E p \in MarkPaths, f \in MutateSaveFaults : RemoveProcessed(p, f)
    \/ \E f \in MutateSaveFaults : ClearProcessed(f)

MutateSpec == Init /\ [][MutateNext]_vars

\* Marks one after the other, each with its save.
BackupNext ==
    \E p \in MarkPaths, f \in MutateSaveFaults : MarkInHistory(p, f)

BackupSpec == Init /\ [][BackupNext]_vars

\* The longest path a document is built for.
MaxPathLen == 3

DocPaths == UNION {[1..n -> DocChars] : n \in 0..MaxPathLen}

\* Documents built for every path, with two contents at two times.
DocumentNext ==
    \/ /\ Idle
       /\ \E file_path \in DocPaths, content \in {"text", "other"}, now \in 1..2 :
             BuildDocument(file_path, content, now)
    \/ Return

DocumentSpec == RetryInit /\ [][DocumentNext]_vars

\* Backlog scans over every tree, between marks of the paths in it.
ScanNext ==
    \/ /\ Idle
       /\ \E t \in Trees : Scan(t)
    \/ /\ Idle
       /\ \E x \in Slots \ DirSlots : MarkProcessed(SlotPath(x), NoSaveFaults)
    \/ Return

ScanSpec == Init /\ [][ScanNext]_vars

\* The application from start() on: the backlog loop, then the watcher.
ThreadsNext ==
    \/ /\ Idle
       /\ \E t \in Trees : StartApp(t)
    \/ BacklogNext
    \/ StartWatcher
    \/ \E p \in FilePaths : FileCreated(p)
    \/ \E p \in FilePaths : FileCreatedUnwatched(p)
    \/ on_created
    \/ \E thd \in Threads : RunEnds(thd)
    \/ \E thd \in Threads : MarkBegins(thd)
    \/ \E thd \in Threads : MarkEnds(thd)
    \/ Stopped

ThreadsSpec == RetryInit /\ [][ThreadsNext]_vars

\* Each thread goes on while it can: the backlog loop takes its next file,
\* start() goes on to the watcher, the observer takes its next event, and a
\* run of process_file comes to its end.
ThreadsFairness ==
    /\ WF_vars(BacklogNext)
    /\ WF_vars(StartWatcher)
    /\ WF_vars(on_created)
    /\ \A thd \in Threads :
          /\ WF_vars(RunEnds(thd) \/ MarkBegins(thd))
          /\ WF_vars(MarkEnds(thd))

ThreadsLiveSpec == ThreadsSpec /\ ThreadsFairness

\* The handler called with every event, over every sequence of outcomes of
\* the callback.
HandlerNext ==
    \/ /\ Idle
       /\ \E ev \in FileEvents, n \in AttemptLimits :
             \E outcomes \in [1..n -> CallbackOutcomes] : OnCreated(ev, n, outcomes)
    \/ Return

HandlerSpec == RetryInit /\ [][HandlerNext]_vars

\* main() from its call of app.start() to the exit of the process, with
\* signals at any statement.
StopNext ==
    \/ Main
    \/ \E made \in {"None", "created", "started"} : FrameStep(made)
    \/ Unwind
    \/ SignalDelivered

StopSpec == RetryInit /\ [][StopNext]_vars

\* chunk_text over texts at the threshold, one character over it, and of
\* more than two windows.
ChunkNext ==
    \/ /\ Idle
       /\ \E max_tokens \in ChunkMaxTokens, overlap \in ChunkOverlaps :
             \E n \in {max_tokens * 4, max_tokens * 4 + 1, max_tokens * 8 + 3} :
                \E text \in ChunkTexts(n) : ChunkText(text, max_tokens, overlap)
    \/ /\ Idle
       /\ \E text \in TwoEndingTexts(6 * 4 + 6) : ChunkText(text, 6, 3)
    \/ Return

ChunkSpec == RetryInit /\ [][ChunkNext]_vars

\* Runs of process_file, stage by stage, and a shutdown signal.
ShutdownNext ==
    \/ \E p \in FilePaths, mode \in {"backlog", "watcher"}, present \in BOOLEAN :
          StartRun(p, mode, present)
    \/ \E ok \in BOOLEAN : StageStep(ok)
    \/ EndRun
    \/ handle_signal
    \/ Exit

ShutdownSpec == RetryInit /\ [][ShutdownNext]_vars

\* ----------------------------------------------------------------- claims
\* The exits of process_file that are a failure of a stage.
FailedLogs == {"ExtractionFailed", "EmbeddingFailed", "IndexFailed", "Error"}

\* The exits of process_file that invoke no stage and return False: the
\* ledger check, and the two path checks that come before it.
SkippedLogs == {"Skipped", "NotFound", "NotAFile"}

\* C1: in every process_file run, mark_processed is called only right after
\* index_document returned True in that run; and after a run that failed at
\* extraction, embedding or indexing, no path that was not in the ledger
\* before is in it, in memory or in a ledger loaded from the disk.
NoMarkWithoutIndex ==
    [][last'.op = "process_file" =>
          /\ \A i \in 1..Len(last'.calls) :
                last'.calls[i] = "mark_processed" =>
                    (i > 1 /\ last'.calls[i - 1] = "index" /\ last'.index = "true")
          /\ last'.log \in FailedLogs =>
                \A p \in FilePaths :
                    /\ ~is_processed(processed_files, p)
                           => ~is_processed(processed_files', p)
                    /\ ~is_processed(FreshLedger(disk), p)
                           => ~is_processed(FreshLedger(disk'), p)]_vars

\* C1 witness: a run whose indexing failed, on a file not in the ledger.
NoMarkWithoutIndexWitness ==
    /\ last.op = "process_file"
    /\ last.log = "IndexFailed"
    /\ ~is_processed(processed_files, last.path)

\* C2: a process_file run on a path that is_processed reports at its start
\* returns False as a skip, invokes no Extractor, Embedder or Indexer, counts
\* no failure and leaves the ledger (memory and disk) as it was.
SkipOnSeen ==
    [][(last'.op = "process_file" /\ is_processed(processed_files, last'.path)) =>
          /\ ~last'.ret
          /\ last'.log \in SkippedLogs
          /\ last'.calls = <<>>
          /\ last'.index = "none"
          /\ ~last'.failed_counted
          /\ processed_files' = processed_files
          /\ disk' = disk]_vars

\* C2 witness: a run that took the ledger exit on a processed path.
SkipOnSeenWitness ==
    /\ last.op = "process_file"
    /\ last.log = "Skipped"
    /\ is_processed(processed_files, last.path)

\* C5 as claimed: over all process_file runs, restarts included, at most one
\* run per file identity gets True from index_document.
AtMostOneIndexEver == \A i \in Ids : index_total[i] <= 1

\* C5 as amended: between two loads of the ledger (one process lifetime), at
\* most one run per file identity gets True from index_document.
AtMostOneIndexPerLife == \A i \in Ids : index_life[i] <= 1

\* C5 witness: a file was indexed in this lifetime and a later run on a path
\* of the same identity was skipped.
AtMostOneIndexPerLifeWitness ==
    /\ last.op = "process_file"
    /\ last.log = "Skipped"
    /\ index_life[FileIdentity(last.path)] = 1

\* C3: after a kill inside a ledger operation (between any two steps of its
\* save), a fresh ledger built over the files reports every path for which
\* mark_processed had returned True.
CrashKeepsAcked ==
    last.op = "crash_in_save" =>
        \A p \in acked : is_processed(FreshLedger(disk), p)

\* C4: over a save (run to its return, or cut by a kill after any of its
\* steps), a well-formed ledger file ends as its complete previous content
\* or as the complete new content.
LedgerFileOldOrNew ==
    [][(last'.op \in {"mark_processed", "crash_in_save"} /\ disk.main.kind = "valid") =>
          \/ disk'.main = disk.main
          \/ disk'.main =
                 SaveData(processed_files \cup {_normalize_path(last'.path)})]_vars

\* C6: when mark_processed(p) has returned True, a fresh ledger built over
\* the files reports p.
RoundTrip ==
    (last.op = "mark_processed" /\ last.ret) =>
        is_processed(FreshLedger(disk), last.path)

\* Paths p and q are the same file identity to the ledger.
SameIdentity(p, q) == _normalize_path(p) = _normalize_path(q)

\* A load read a well-formed file with no file-system fault.
CleanLoad == last.op = "load" /\ ~last.faulty /\ last.pre.kind = "valid"

AtMostOnceMarking ==
    [][(last'.op = "mark_processed" /\ is_processed(processed_files, last'.path)) =>
          /\ processed_files' = processed_files
          /\ get_processed_count(processed_files')
                 = get_processed_count(processed_files)]_vars

\* C8 witness: a second mark of an identity: True is returned, nothing is
\* saved, and the path is in the ledger.
AtMostOnceMarkingWitness ==
    /\ last.op = "mark_processed"
    /\ last.ret
    /\ ~last.saved
    /\ is_processed(processed_files, last.path)
    /\ get_processed_count(processed_files) >= 1

\* The ledger file does not parse as an object holding a list.
Unparsable(content) == content.kind \in {"garbage", "notdict", "notlist"}

\* C9: a load (no file-system fault) of a ledger file that does not parse
\* tries the backup exactly once when there is one; the processed set is the
\* backup's content when the backup is valid, and empty otherwise.
BackupRecovery ==
    (last.op = "load" /\ ~last.faulty /\ Unparsable(last.pre)) =>
        IF exists(last.prebackup)
        THEN /\ last.restores = 1
             /\ processed_files = (IF last.prebackup.kind = "valid"
                                   THEN LoadedSet(last.prebackup)
                                   ELSE {})
        ELSE /\ last.restores = 0
             /\ processed_files = {}

ExponentialBackoff(n) == [k \in 1..(n - 1) |-> 2 ^ (k - 1)]

\* C11: when every one of the max_retries write attempts of the save of
\* mark_processed(p) fails (with the exponential delays between them), the
\* call returns False and the in-memory set holds the normal form of p, so
\* is_processed(p) is True in that process.
FailedPersistKeepsMemory ==
    (last.op = "mark_processed" /\ last.failures = max_retries) =>
        /\ ~last.ret
        /\ last.sleeps = ExponentialBackoff(max_retries)
        /\ _normalize_path(last.path) \in processed_files
        /\ is_processed(processed_files, last.path)

\* C11 witness: a mark of a new path whose three write attempts failed.
FailedPersistKeepsMemoryWitness ==
    /\ last.op = "mark_processed"
    /\ last.saved
    /\ last.failures = max_retries
    /\ last.sleeps = <<1, 2>>
    /\ ~last.ret
    /\ ~is_processed(FreshLedger(disk), last.path)

\* main.py 300-332: the stages in the order process_file calls them.
PipelineOrder == <<"extract", "embed", "index">>

\* The stage calls among the calls a run made, in order.
StageCalls(calls) == SelectSeq(calls, LAMBDA c : c \in Range(PipelineOrder))

\* C12: the stage calls of a run are a prefix of extract, embed, index (in
\* that order, each at most once); the Embedder is called only when the
\* Extractor returned non-empty text, the Indexer only when the Embedder
\* returned a vector; and the stage that fails is the last one called.
StagesInOrder ==
    last.op = "process_file" =>
        LET made == StageCalls(last.calls)
        IN /\ Len(made) <= Len(PipelineOrder)
           /\ made = SubSeq(PipelineOrder, 1, Len(made))
           /\ "embed" \in Range(made) => last.extract = "text"
           /\ "index" \in Range(made) => last.embed = "vector"
           /\ last.extract \in {"none", "empty", "raise"} => made = <<"extract">>
           /\ last.embed \in {"none", "raise"} => made = <<"extract", "embed">>
           /\ last.index \in {"false", "raise"} =>
                 /\ made = PipelineOrder
                 /\ "mark_processed" \notin Range(last.calls)

\* C12 witness: a run whose Embedder failed after a good extraction, and
\* which did not reach the Indexer.
StagesInOrderWitness ==
    /\ last.op = "process_file"
    /\ last.extract = "text"
    /\ last.embed = "none"
    /\ last.calls = <<"extract", "embed">>
    /\ last.index = "none"
    /\ ~last.ret

\* The last run failed at a stage: the Extractor, the Embedder or the
\* Indexer returned a failure or raised.
StageFailed ==
    /\ last.op = "process_file"
    /\ \/ last.extract \in {"none", "empty", "raise"}
       \/ last.embed \in {"none", "raise"}
       \/ last.index \in {"false", "raise"}

\* main.py 397-408, watcher callback: the next file is handed to
\* process_file.
ProcessNextFile == \E p \in FilePaths, env \in ProcessEnvs : ProcessFile(p, env)

\* C13: a run that failed at a stage, by a failure result or by an exception
\* of the collaborator, returned False and raised nothing; the process is up
\* and the next file can be processed.
StageFailureContained ==
    StageFailed =>
        /\ ~last.ret
        /\ ~last.raised
        /\ last.log \in FailedLogs
        /\ alive
        /\ nops < MaxOps => ENABLED ProcessNextFile

\* C13 witness: the Embedder raised; the run ended as a failure.
StageFailureContainedWitness ==
    /\ StageFailed
    /\ last.embed = "raise"
    /\ last.log = "Error"
    /\ ~last.ret
    /\ alive

\* What a run gives its caller and leaves in the ledger.
Outcome(r) == [ret |-> r.ret, log |-> r.log, mem |-> r.mem, disk |-> r.disk]

\* C14: from any state of the ledger, for any file and any outcomes of the
\* Extractor, Embedder, Indexer and save, the run with a Notifier that fails
\* or is disabled returns what the run with a Notifier that delivers returns
\* and leaves the same ledger, and no exception of the Notifier leaves
\* process_file.
NotifierIndependent ==
    /\ last.op = "process_file" => ~last.raised
    /\ alive =>
          \A p \in FilePaths, env \in NotifyEnvs, n \in Notifications \ {"delivered"} :
              \A a \in {process_file(processed_files, disk, auto_backup, p,
                                     [env EXCEPT !.notify = "delivered"])},
                 b \in {process_file(processed_files, disk, auto_backup, p,
                                     [env EXCEPT !.notify = n])} :
                  /\ Outcome(b) = Outcome(a)
                  /\ ~b.raised

\* C14 witness: a run indexed and marked its file while the webhook request
\* failed, and returned True.
NotifierIndependentWitness ==
    /\ last.op = "process_file"
    /\ last.notified = "failed"
    /\ last.log = "Success"
    /\ last.ret
    /\ is_processed(processed_files, last.path)

\* The error of a rate-limited call (HTTP 429) at a site.
RateLimited(site) ==
    IF site = "embedding" THEN Err("RateLimitError", 429)
    ELSE Err("HttpResponseError", 429)

\* The errors of a timeout, a failed connection and a 5xx answer at a site.
Transient(site) ==
    IF site = "embedding"
    THEN {Err("APITimeoutError", NoStatus), Err("APIConnectionError", NoStatus),
          Err("APIStatusError", 500)}
    ELSE {Err("ServiceRequestError", NoStatus), Err("ServiceResponseError", NoStatus),
          Err("HttpResponseError", 500)}

LinearBackoff(n) == [k \in 1..(n - 1) |-> k]

\* A retry executor has run over a request that passed validation.
Executed(ops) == last.op \in ops /\ last.valid

\* C15: in the OCR and the embedding executor with n attempts, when every
\* call is rate limited the sleeps are base_delay * 2^(k-1) for k = 1..n-1
\* (1, 2 for n = 3); when every call ends in the same timeout, connection or
\* 5xx error they are base_delay * k; in both cases the service is called
\* exactly n times and nothing is slept after the last call.
BackoffSchedule ==
    Executed({"extract", "embed"}) =>
        /\ last.sched = Always(last.limit, RateLimited(last.site)) =>
              /\ last.sleeps = ExponentialBackoff(last.limit)
              /\ last.invoked = last.limit
              /\ last.result = "none"
        /\ \A e \in Transient(last.site) :
              last.sched = Always(last.limit, e) =>
                  /\ last.sleeps = LinearBackoff(last.limit)
                  /\ last.invoked = last.limit
                  /\ last.result = "none"

BackoffScheduleWitness ==
    /\ last.op = "embed"
    /\ last.limit = ExecutorMaxRetries + 1
    /\ last.sched = Always(last.limit, Err("APITimeoutError", NoStatus))
    /\ last.sleeps = <<1, 2, 3>>
    /\ last.invoked = 4

\* The errors of an authentication failure at a site.
AuthErrors(site) ==
    IF site = "embedding" THEN {Err("APIStatusError", 401)}
    ELSE {e \in AzureErrors : e.cls = "ClientAuthenticationError"}

\* C16: at each of the three executors a call that ends in an
\* authentication error is the only call: nothing is slept and the executor
\* returns a failure.
AuthFailureNotRetried ==
    Executed({"extract", "embed", "execute"}) /\ last.sched[1] \in AuthErrors(last.site) =>
        /\ last.invoked = 1
        /\ last.sleeps = <<>>
        /\ last.result = "none"

\* The errors of an answer with a 4xx status other than 429.
ClientErrors(site) ==
    {e \in SiteErrors(site) : e.status \in 400..499 /\ e.status # 429}

\* C17: at each of the three executors a call that ends in a client error
\* (4xx other than 429) is the last call and the executor returns a failure,
\* while after a call that ends in a 429 the executor sleeps and calls again
\* (unless it was the last attempt).
ClientErrorNotRetried ==
    Executed({"extract", "embed", "execute"}) =>
        \A k \in 1..last.invoked :
            /\ last.sched[k] \in ClientErrors(last.site) =>
                  /\ last.invoked = k
                  /\ Len(last.sleeps) = k - 1
                  /\ last.result = "none"
            /\ last.sched[k].status = 429 /\ k < last.limit =>
                  /\ last.invoked > k
                  /\ Len(last.sleeps) >= k

ClientErrorNotRetriedWitness ==
    /\ last.op = "execute"
    /\ last.sched = <<Err("HttpResponseError", 429), Err("HttpResponseError", 400), Ok>>
    /\ last.invoked = 2
    /\ last.sleeps = <<1>>
    /\ last.result = "none"

\* C18: a file that is missing, too large or of an unsupported type, and a
\* text that is empty, only whitespace or too long, is rejected before any
\* call of the service: no call, no sleep, and a failure returned.
ValidationRejects ==
    /\ last.op = "extract"
       /\ (~last.file.exists \/ last.file.size > max_size \/ ~last.file.supported)
       => last.invoked = 0 /\ last.sleeps = <<>> /\ last.result = "none"
    /\ last.op = "embed"
       /\ (last.text.len = 0 \/ last.text.blank \/ last.text.len > max_text_length)
       => last.invoked = 0 /\ last.sleeps = <<>> /\ last.result = "none"

ValidationRejectsWitness ==
    /\ last.op = "extract"
    /\ last.file = [GoodFile EXCEPT !.size = max_size + 1]
    /\ last.sched = Always(last.limit, Ok)
    /\ last.invoked = 0
    /\ last.result = "none"

\* The ways a run of process_file ends: the file is not there or not a
\* file, it is skipped, a stage failed, or it succeeded.
TerminalLogs == {"NotFound", "NotAFile", "Skipped", "Success"} \cup FailedLogs

\* C19: a run of process_file over the real Extractor and Embedder ends in
\* one of the terminal outcomes, having called each external service at most
\* max_retries (3) times, whatever each call returned or raised.
BoundedRun ==
    last.op = "pipeline" =>
        /\ last.log \in TerminalLogs
        /\ ~last.raised
        /\ \A site \in Sites : last.services[site] <= ExecutorMaxRetries

BoundedRunWitness ==
    /\ last.op = "pipeline"
    /\ last.log = "Success"
    /\ last.services = [ocr |-> ExecutorMaxRetries, embedding |-> ExecutorMaxRetries,
                        indexer |-> 1]

\* C20: when the process exits after a shutdown signal, the run of
\* process_file that was in progress, in the backlog loop or in the watcher
\* callback, has reached a terminal state.
RunsToTerminal == last.op = "exit" => last.pc \in TerminalPcs

\* The errors the except clauses of a site do not name: they reach its
\* last clause, except Exception.
Unclassified(site) == {Err("Exception", NoStatus)}

\* C30: at each of the three executors, when every call raises an error of
\* a type that is not classified, the service is called max_attempts times
\* with the sleeps base_delay * k between the calls, and a failure is
\* returned.
UnclassifiedRetriedLinear ==
    Executed({"extract", "embed", "execute"}) =>
        \A e \in Unclassified(last.site) :
            last.sched = Always(last.limit, e) =>
                /\ last.invoked = last.limit
                /\ last.sleeps = LinearBackoff(last.limit)
                /\ last.result = "none"

\* The upload failures that are to be retried: a 429, a 5xx and a
\* connection error.
RetryableUpload ==
    {Err("HttpResponseError", 429), Err("HttpResponseError", 500),
     Err("ServiceRequestError", NoStatus)}

\* C26: when every upload of index_document fails in a retryable way, the
\* upload is called max_attempts times with a sleep between the calls, and
\* index_document then returns a failure.
UploadThroughExecutor ==
    last.op = "index_document" =>
        \A e \in RetryableUpload :
            last.sched = Always(last.limit, e) =>
                /\ last.invoked = last.limit
                /\ Len(last.sleeps) = last.limit - 1
                /\ last.result = "false"

\* The outcomes of a run in which every stage and the save work.
AllWell == Env(TRUE, TRUE, "text", "vector", "true", NoSaveFaults)

\* A run indexed its file and its mark_processed returned False.
MarkFailedAfterIndex ==
    /\ last.op = "process_file"
    /\ last.index = "true"
    /\ last.saved
    /\ ~last.mark_ret

RunAfterRestart(d, ab, file_path) ==
    LET l == _load_state(d, NoLoadFaults)
    IN process_file(l.processed, l.disk, ab, file_path, AllWell)

SuccessOnlyIfPersisted ==
    /\ last.op = "process_file" /\ last.ret => last.mark_ret
    /\ MarkFailedAfterIndex => ~last.ret /\ last.log \in FailedLogs

\* C29: a run whose extraction gave no or empty text returns False, sends
\* the Notifier a processing_error event and not a file_processed event,
\* and leaves the ledger as it was.
ExtractionFailureNotified ==
    last.op = "process_file" /\ last.extract \in {"none", "empty"} =>
        /\ ~last.ret
        /\ last.log = "ExtractionFailed"
        /\ last.event = "processing_error"
        /\ processed_files = last.pre_mem

\* The list is in strictly ascending order (so it has no duplicates).
Ascending(q) == \A i \in 1..(Len(q) - 1) : StrLess(q[i], q[i + 1])

\* One of the four mutating operations made a save that succeeded.
SavedBy(ops) == last.op \in ops /\ last.saved /\ last.ret

\* C23: after a successful save made by mark_processed,
\* mark_batch_processed, remove_processed or clear_processed, the
\* processed_files list of the ledger file is in ascending order without
\* duplicates, its entries are exactly the in-memory set, and total_files is
\* its length.
SavedFileListsMemory ==
    SavedBy({"mark_processed", "mark_batch_processed", "remove_processed",
             "clear_processed"}) =>
        /\ disk.main.kind = "valid"
        /\ Ascending(disk.main.files)
        /\ Range(disk.main.files) = processed_files
        /\ disk.main.total = Len(disk.main.files)

SavedFileListsMemoryWitness ==
    /\ SavedBy({"mark_batch_processed"})
    /\ Len(disk.main.files) = 2
    /\ last.failures > 0

\* C25: the document ID index_document derives is the same for the same
\* path whatever the content and the time of the call, holds no path
\* separator and no dot, and does not begin with '_'.
DocumentIdStable ==
    last.op = "document" =>
        /\ \A content \in {"text", "other"}, now \in 1..2 :
              document(last.path, content, now).id = last.doc_id
        /\ \A i \in 1..Len(last.doc_id) : last.doc_id[i] \notin {"/", "\\", "."}
        /\ last.doc_id # <<>> => Head(last.doc_id) # "_"

DocumentIdStableWitness ==
    /\ last.op = "document"
    /\ last.path = <<"/", "a", ".">>
    /\ last.doc_id = <<"a", "_">>

\* The entry at the slot is in the tree: the directories above it are.
RECURSIVE InTree(_, _)
InTree(t, x) ==
    /\ t.at[x].kind # "absent"
    /\ IF Parent(x) = "root" THEN t.root = "dir" ELSE InTree(t, Parent(x))

\* The regular files of the tree with a supported suffix whose identity is
\* not in the ledger.
Unprocessed(t, mem) ==
    {x \in Slots : /\ InTree(t, x)
                   /\ t.at[x].kind = "file"
                   /\ t.at[x].suffix \in {".jpg", ".JPG"}
                   /\ FileIdentity(SlotPath(x)) \notin mem}

\* C22: scan_existing_files returns exactly the regular files of the tree,
\* at any depth, whose suffix is supported when lower-cased and whose
\* identity is not in the ledger, each once; over a directory that does not
\* exist or has no entries it returns the empty list.
ScanFindsUnprocessed ==
    last.op = "scan" =>
        /\ Range(last.found) = Unprocessed(last.tree, processed_files)
        /\ Len(last.found) = Cardinality(Range(last.found))
        /\ last.tree.root = "absent" \/ last.tree = EmptyTree => last.found = <<>>

ScanFindsUnprocessedWitness ==
    /\ last.op = "scan"
    /\ processed_files = {FileIdentity(P_C)}
    /\ last.tree.at["r1"] = File(".jpg")
    /\ last.tree.at["r2"] = File(".JPG")
    /\ last.tree.at["d1f"] = Fifo
    /\ last.tree.at["d2f"] = File(".jpg")
    /\ Len(last.found) = 2
    /\ Range(last.found) = {"r2", "d2f"}

\* No call of mark_processed is between its update of the set and the end
\* of its save.
NoSaveInProgress == \A thd \in Threads : last.threads.pc[thd] # "saving"

\* C21: at most one run of process_file is in progress at any time, in the
\* backlog loop or in the observer's handler, so the saves of the ledger do
\* not interleave: whenever no save is in progress the ledger file lists the
\* set in memory.
OneRunAtATime ==
    last.op = "threads" =>
        /\ ~(\A thd \in Threads : last.threads.pc[thd] \in InProcessFile)
        /\ NoSaveInProgress /\ processed_files # {} =>
              disk.main = SaveData(processed_files)

OneRunAtATimeWitness ==
    /\ last.op = "threads"
    /\ last.threads.pc = [main |-> "watching", observer |-> "saving"]
    /\ last.threads.queue # <<>>
    /\ Cardinality(processed_files) = 2
    /\ disk.main.total = 1

\* Every chunk returned is longer than the floor after trimming.
ChunksAboveFloor ==
    \A i \in 1..Len(last.chunks) : Len(strip(last.chunks[i])) > MinChunkChars

\* C24 as claimed: chunk_text on a text of exactly max_tokens*4 characters
\* returns the text as its one chunk, on a text one character longer it
\* returns at least two chunks, and every chunk of a text over the
\* threshold is longer than 10 characters after trimming.
ChunkBoundary ==
    last.op = "chunk_text" =>
        /\ Len(last.chunked) = last.max_tokens * 4 => last.chunks = <<last.chunked>>
        /\ Len(last.chunked) = last.max_tokens * 4 + 1 => Len(last.chunks) >= 2
        /\ Len(last.chunked) > last.max_tokens * 4 => ChunksAboveFloor

\* No whitespace among the first and the last MinChunkChars + 1 characters.
SolidEnds(text) ==
    \A i \in 1..Len(text) :
        i <= MinChunkChars + 1 \/ i >= Len(text) - MinChunkChars =>
            ~(IsSpace(text[i]) \/ text[i] = "NL")

\* C24, amended: a text of exactly max_tokens*4 characters is returned as
\* the one chunk unless it is all whitespace, and then no chunk is
\* returned; a text one character longer gives at least two chunks when
\* half a window and the overlap are not shorter than the floor and the
\* text has no whitespace among its first and last 11 characters; every
\* chunk of a text over the threshold is longer than 10 characters after
\* trimming.
ChunkBoundaryNonBlank ==
    last.op = "chunk_text" =>
        /\ Len(last.chunked) = last.max_tokens * 4 =>
              last.chunks = IF strip(last.chunked) = <<>> THEN <<>>
                            ELSE <<last.chunked>>
        /\ /\ Len(last.chunked) = last.max_tokens * 4 + 1
           /\ (last.max_tokens * 4) \div 2 >= MinChunkChars
           /\ last.overlap * 4 >= MinChunkChars
           /\ SolidEnds(last.chunked)
           => Len(last.chunks) >= 2
        /\ Len(last.chunked) > last.max_tokens * 4 => ChunksAboveFloor

ChunkBoundaryNonBlankWitness ==
    /\ last.op = "chunk_text"
    /\ last.max_tokens = 6
    /\ last.overlap = 3
    /\ last.chunked = Run("x", 14) \o <<".", "SP">> \o Run("x", 9)
    /\ last.chunks = <<Run("x", 14) \o <<".">>,
                       <<"x", "x", ".", "SP">> \o Run("x", 9)>>

\* The errors of a type that the OCR and the embedding executor have no
\* clause for.
UnexpectedErrors == {Err("ValueError", NoStatus), Err("Exception", NoStatus)}

\* C31: in the OCR and the embedding executor a call that raises an
\* unexpected error type is the last call: when it is the first call the
\* service is called exactly once, nothing is slept, and a failure is
\* returned.
UnexpectedNotRetried ==
    Executed({"extract", "embed"}) =>
        \A k \in 1..last.invoked :
            last.sched[k] \in UnexpectedErrors =>
                /\ last.invoked = k
                /\ Len(last.sleeps) = k - 1
                /\ last.result = "none"

UnexpectedNotRetriedWitness ==
    /\ last.op = "embed"
    /\ last.sched = Always(ExecutorMaxRetries, Err("ValueError", NoStatus))
    /\ last.invoked = 1
    /\ last.sleeps = <<>>
    /\ last.result = "none"

EndsOfKind(text, kind, lo, hard) ==
    {i + Len(kind) : i \in {j \in lo..(hard - Len(kind)) :
                               SubSeq(text, j + 1, j + Len(kind)) = kind}}

\* The greatest member of a set of numbers.
Greatest(S) == CHOOSE i \in S : \A j \in S : j <= i

\* The windows whose hard boundary the text continues past.
CutWindows ==
    {i \in 1..Len(last.windows) :
        last.windows[i][1] + last.max_tokens * 4 < Len(last.chunked)}

\* C33 as claimed: when the text continues past a chunk's hard boundary,
\* the chunk ends after the ending that is nearest to the hard boundary
\* within [start + max_chars/2, boundary), and at the hard boundary only
\* when the window holds no ending.
CutsAtNearestEnding ==
    last.op = "chunk_text" =>
        \A i \in CutWindows :
            LET from == last.windows[i][1]
                hard == from + last.max_tokens * 4
                lo == from + ((last.max_tokens * 4) \div 2)
                ends == UNION {EndsOfKind(last.chunked, sentence_endings[k], lo, hard) :
                                  k \in 1..Len(sentence_endings)}
            IN last.windows[i][2] = IF ends = {} THEN hard ELSE Greatest(ends)

\* C33, amended: the chunk ends after the last ending, within the window,
\* of the first kind in the order of preference that the window holds, and
\* at the hard boundary only when the window holds an ending of no kind.
CutsAtPreferredEnding ==
    last.op = "chunk_text" =>
        \A i \in CutWindows :
            LET from == last.windows[i][1]
                hard == from + last.max_tokens * 4
                lo == from + ((last.max_tokens * 4) \div 2)
                held == {k \in 1..Len(sentence_endings) :
                            EndsOfKind(last.chunked, sentence_endings[k], lo, hard) # {}}
            IN last.windows[i][2] =
                  IF held = {} THEN hard
                  ELSE Greatest(EndsOfKind(last.chunked,
                                           sentence_endings[CHOOSE k \in held :
                                                               \A j \in held : k <= j],
                                           lo, hard))

CutsAtPreferredEndingWitness ==
    /\ last.op = "chunk_text"
    /\ last.chunked = Run("x", 13) \o <<".", "SP">> \o Run("x", 3) \o <<",", "SP">>
                         \o Run("x", 10)
    /\ last.windows[1] = <<0, 15>>

\* The absolute paths among the paths explored whose name begins with a
\* letter.
AbsolutePaths == {q \in DocPaths : Len(q) >= 2 /\ q[1] = "/" /\ q[2] = "a"}

\* C34: the document ID derived from a path is derived from no other path.
DocumentIdDistinct ==
    last.op = "document" /\ last.path \in AbsolutePaths =>
        \A q \in AbsolutePaths : q # last.path => doc_id(q) # last.doc_id

\* C35: whenever mark_processed(p) has returned True, the ledger file holds
\* the identity of p: a ledger loaded from the files on disk, without a
\* fault, reports p as processed.
MarkedIsOnDisk ==
    last.op = "mark_processed" /\ last.ret =>
        /\ disk.main.kind = "valid"
        /\ is_processed(_load_state(disk, NoLoadFaults).processed, last.path)

\* The set a ledger gets that is constructed when the ledger file is
\* corrupted and the files are otherwise as they are.
Recovered == FreshLedger(Disk(Garbage, disk.backup, Absent))

\* A save with auto_backup has succeeded over an existing ledger file, and
\* so has every save before it.
SavedOverPrevious ==
    /\ last.op = "mark_in_history"
    /\ last.saved /\ last.ret /\ last.clean
    /\ auto_backup
    /\ exists(last.pre_disk.main)

CreatedIsProcessed ==
    \A p \in FilePaths :
        (last.op = "threads" /\ p \in last.threads.created)
            ~> (last.threads.pc["main"] = "stopped" \/ p \in last.threads.passed)

\* C38: for one event the handler calls the callback again only after a
\* call that raised an Exception, and at most max_retries times in all; a
\* call that returns, True or False, is the last one, and the event is then
\* counted as processed.
CallbackRetriedOnlyOnException ==
    last.op = "on_created" =>
        /\ last.invoked <= last.limit
        /\ \A k \in 1..last.invoked :
              /\ k < last.invoked => last.sched[k] = "Exception"
              /\ last.sched[k] \in {"True", "False"} =>
                    /\ last.invoked = k
                    /\ last.result = "files_processed"

CallbackRetriedOnlyOnExceptionWitness ==
    /\ last.op = "on_created"
    /\ last.sched = <<"Exception", "False", "Exception">>
    /\ last.invoked = 2
    /\ last.sleeps = <<1>>
    /\ last.result = "files_processed"

\* C39: a run of process_file whose extracted text is longer than
\* max_text_length ends as a failed embedding, without a call of the
\* embedding service, without a call of index_document and without a mark,
\* and leaves the file unprocessed, so that the next run of it extracts
\* again and ends the same way.
OverlongTextFails ==
    last.op = "pipeline" /\ last.extract = "text" /\ last.text.len > max_text_length =>
        /\ last.log = "EmbeddingFailed"
        /\ ~last.ret
        /\ last.embed = "none"
        /\ last.services.embedding = 0
        /\ last.services.indexer = 0
        /\ last.calls = <<"extract", "embed">>
        /\ ~is_processed(processed_files, last.path)

OverlongTextFailsWitness ==
    /\ last.op = "pipeline"
    /\ last.extract = "text"
    /\ last.text = [GoodText EXCEPT !.len = max_text_length + 1]
    /\ last.services = [ocr |-> 1, embedding |-> 0, indexer |-> 0]
    /\ last.log = "EmbeddingFailed"
    /\ processed_files # {}

\* C40: whatever calls of stop() the signal handler, the finally of start()
\* and the finally of main() make, watcher.stop() and notifier.close() are
\* each called at most once; and a stop() that finds the application not
\* running returns with nothing changed.
StopIsIdempotent ==
    /\ [](last.app.stops <= 1 /\ last.app.closes <= 1)
    /\ [][/\ InMain
          /\ last.app.exc = "none"
          /\ Top(last.app.stack) = "stop.check"
          /\ ~last.app.running
          /\ last'.app.signals = last.app.signals
          => last'.app = [last.app EXCEPT !.stack = Pop(@)]]_vars

\* A signal in the main loop: the handler's stop() has stopped the watcher
\* and closed the notifier, and the stop() calls of both finally blocks
\* have returned.
StopIsIdempotentWitness ==
    /\ last.op = "main"
    /\ last.app.exited
    /\ last.app.signals = 1
    /\ last.app.watcher = "started"
    /\ last.app.stops = 1
    /\ last.app.closes = 1

====
